---- MODULE Spec2Model ----
(***************************************************************************)
(* State-machine model of the wraply-space backend: the WebSocket          *)
(* session-synchronisation channel (utils/websocket.js), the auth routes   *)
(* that issue and clear session tokens (/verify, /logout), and the mongoose*)
(* collections they operate on.                                            *)
(*                                                                         *)
(* Conventions.  A JavaScript value that may be undefined/null is an       *)
(* option: <<>> when absent, <<v>> when present.  A session token is the   *)
(* tuple <<username, iat>> that jwt.sign({username}) is a function of, and *)
(* <<>> when null/missing.  A missing or empty username is "".  A client   *)
(* `data` object is a function from its field names to values.  Each       *)
(* action records in `out` what it delivered to every connection and in    *)
(* `last` the request it served.                                           *)
(***************************************************************************)
EXTENDS Integers, Sequences, FiniteSets, TLC

VARIABLES
    User,       \* the User collection: a sequence of documents, in insertion order
    Tab, Shortcut, History, Bookmark, Note,   \* the resource collections
    nextId,     \* the next ObjectId a new resource document gets
    now,        \* the clock, in ticks of TickMs milliseconds
    conns,      \* per connection: transport state, ws.username, debounce timers
    checks,     \* per connection: timer callbacks that await User.findOne
    pending,    \* per /register request: the username it is about to save
    issued,     \* every session token /verify has handed to a client
    arrivals,   \* per connection: the ticks at which credentialed messages arrived
    lookups,    \* per connection: arrival ticks of the messages whose timer fired
    out,        \* per connection: what the last step delivered to it, in order
    wire,       \* per connection: frames sent on its socket, not yet received
    received,   \* per connection: frames its client has received, in order
    calls,      \* per username: the payloads of the broadcastToUser calls, in order
    last        \* the request the last step served

vars == <<User, Tab, Shortcut, History, Bookmark, Note,
          nextId, now, conns, checks, pending, issued, arrivals, lookups, out,
          wire, received, calls, last>>

\* ---------------------------------------------------------------- bounds
\* The clock stops after MaxTicks ticks.
MaxTicks == 4
\* At most MaxAccounts User documents are ever stored at once.
MaxAccounts == 4
\* A socket carries at most MaxFrames frames.
MaxFrames == 3
\* At most MaxDocs resource documents are ever created.
MaxDocs == 2
\* ... and at most MaxItems in the specification of all five collections.
MaxItems == 1

\* ------------------------------------------------------ program constants
DebounceDelay == 1000
MsPerSecond == 1000
\* the clock's granularity: two ticks to a debounce delay
TickMs == DebounceDelay \div 2
Millis(ticks) == ticks * TickMs

Users == {"alice", "bob"}
Conns == {"c1", "c2", "c3"}
\* the /register requests that can be in progress at once
Registrations == {"r1", "r2"}

\* -------------------------------------------------------------- messages
StatusMsg(status, message) == [status |-> status, message |-> message]

NoOut == [c \in Conns |-> <<>>]

\* ws.send(JSON.stringify(m)) on connection ws
Send(ws, m) == [c \in Conns |-> IF c = ws THEN <<m>> ELSE <<>>]

\* faulty variant: the callback returns after the first delivery
Then_OnlyFirst(o1, o2) == o1

\* two deliveries one after the other
Then(o1, o2) == [c \in Conns |-> o1[c] \o o2[c]]

\* faulty variant: every OPEN client, whoever it is bound to
broadcastToUser_Everyone(username, data) ==
    [c \in Conns |-> IF conns[c].state = "open" THEN <<data>> ELSE <<>>]

\* wss.clients, a Set: forEach visits the clients in the order they connected
Registry == <<"c1", "c2", "c3">>
Position(c) == CHOOSE i \in 1..Len(Registry) : Registry[i] = c

\* faulty variant: no try/catch around client.send, so that the first send
\* that throws ends the forEach
broadcastToUser_StopsAtThrow(username, data) ==
    [c \in Conns |->
        IF /\ conns[c].state = "open" /\ conns[c].username = <<username>>
           /\ \A b \in Conns :
                 (/\ Position(b) <= Position(c)
                  /\ conns[b].state = "open" /\ conns[b].username = <<username>>)
                 => ~conns[b].sendThrows
        THEN <<data>> ELSE <<>>]

\* broadcastToUser(username, data): every registered client that is OPEN and
\* bound to username is sent data; a client.send that throws delivers nothing
\* to that client, is caught and logged, and the forEach goes on
broadcastToUser(username, data) ==
    [c \in Conns |->
        IF /\ conns[c].state = "open" /\ conns[c].username = <<username>>
           /\ ~conns[c].sendThrows
        THEN <<data>> ELSE <<>>]

\* ------------------------------------------------------------- mongoose
\* Model.findOne(filter) on the User collection (a sequence, in insertion
\* order): the first matching document, as an option.
findOne(coll, idx) ==
        IF idx = {} THEN <<>>
        ELSE <<coll[CHOOSE i \in idx : \A j \in idx : i <= j]>>

\* doc.save() of an existing User document after doc.sessionToken = token
\* (and, in /verify, doc.userStatus = status): updates the stored document
\* with that _id.
saveUser(coll, uid, token, status) ==
    [i \in 1..Len(coll) |->
        IF coll[i].uid = uid
        THEN [coll[i] EXCEPT !.sessionToken = token, !.userStatus = status]
        ELSE coll[i]]

\* faulty variant: User.findOne({ username }), the token is not compared
findSession_AnyToken(sessionToken, username) ==
    findOne(User, {i \in 1..Len(User) : User[i].username = username})

\* User.findOne({ sessionToken, username })
findSession(sessionToken, username) ==
    findOne(User, {i \in 1..Len(User) : /\ User[i].sessionToken = sessionToken
                                        /\ User[i].username = username})

\* { a, ...b } : object spread, b's fields override a's
Spread(a, b) ==
    [k \in DOMAIN a \cup DOMAIN b |-> IF k \in DOMAIN b THEN b[k] ELSE a[k]]

\* new Model(obj) for a schema with the given paths and defaults: keeps the
\* schema paths of obj, fills the defaults, assigns the _id.
NewDoc(paths, defaults, obj, id) ==
    LET have == (paths \cap DOMAIN obj) \cup DOMAIN defaults
    IN  [k \in have \cup {"_id"} |->
            IF k = "_id" THEN id
            ELSE IF k \in DOMAIN obj THEN obj[k] ELSE defaults[k]]

\* faulty variant: no path is required
Validates_Anything(required, doc) == TRUE

\* schema validation on save(): every required path is present
Validates(required, doc) == required \subseteq DOMAIN doc

\* Model.findOneAndUpdate / findByIdAndUpdate: $set of the schema paths of
\* update on the documents of coll that the filter matched
updateWhere(coll, matched, paths, update) ==
    {IF d \in matched
     THEN [k \in DOMAIN d |->
              IF k \in paths /\ k \in DOMAIN update THEN update[k] ELSE d[k]]
     ELSE d : d \in coll}

TabPaths == {"username", "title", "url", "group", "status"}
TabRequired == {"username", "title", "url"}
TabDefaults == [group |-> "default", status |-> "active"]
ItemPaths == {"username", "title", "url"}
NotePaths == {"username", "content"}
NoDefaults == [k \in {} |-> ""]

\* ------------------------------------------------------------- handlers
\* A handler's effect: the collections and the id counter after it, and what
\* it delivered.
Same == [Tab |-> Tab, Shortcut |-> Shortcut, History |-> History,
         Bookmark |-> Bookmark, Note |-> Note, nextId |-> nextId,
         out |-> NoOut]

Respond(ws, m) == [Same EXCEPT !.out = Send(ws, m)]

LogoutInvalid(ws) == Respond(ws, StatusMsg("logout", "Invalid session"))

\* faulty variant: the handler serves only a connection the validator has bound
handleCreateTab_BoundOnly(ws, sessionToken, username, tabData) ==
    LET user == findSession(sessionToken, username) IN
    IF user = <<>> \/ conns[ws].username # <<username>> THEN LogoutInvalid(ws)
    ELSE LET given == IF tabData = <<>> THEN NoDefaults ELSE tabData[1]
             newTab == NewDoc(TabPaths, TabDefaults,
                              Spread(Spread([username |-> user[1].username], given),
                                     [status |-> "active"]),
                              nextId)
         IN  IF ~Validates(TabRequired, newTab)
             THEN Respond(ws, StatusMsg("error", "Failed to create tab"))
             ELSE [Same EXCEPT
                     !.Tab = Tab \cup {newTab},
                     !.nextId = nextId + 1,
                     !.out = broadcastToUser(user[1].username,
                                 [action |-> "tabCreated", tab |-> newTab])]

handleCreateTab(ws, sessionToken, username, tabData) ==
    LET user == findSession(sessionToken, username) IN
    IF user = <<>> THEN LogoutInvalid(ws)
    ELSE LET given == IF tabData = <<>> THEN NoDefaults ELSE tabData[1]
             newTab == NewDoc(TabPaths, TabDefaults,
                              Spread(Spread([username |-> user[1].username], given),
                                     [status |-> "active"]),
                              nextId)
         IN  IF ~Validates(TabRequired, newTab)
             THEN Respond(ws, StatusMsg("error", "Failed to create tab"))
             ELSE [Same EXCEPT
                     !.Tab = Tab \cup {newTab},
                     !.nextId = nextId + 1,
                     !.out = broadcastToUser(user[1].username,
                                 [action |-> "tabCreated", tab |-> newTab])]

handleCloseTab(ws, sessionToken, username, tabId) ==
    IF tabId = <<>>
    THEN Respond(ws, StatusMsg("error", "Missing tabId"))
    ELSE
    LET user == findSession(sessionToken, username) IN
    IF user = <<>> THEN LogoutInvalid(ws)
    ELSE LET matched == {d \in Tab : d["_id"] = tabId[1] /\ d.username = user[1].username}
         IN  IF matched = {}
             THEN Respond(ws, StatusMsg("error", "Tab not found or unauthorized"))
             ELSE [Same EXCEPT
                     !.Tab = updateWhere(Tab, matched, TabPaths, [status |-> "closed"]),
                     !.out = broadcastToUser(user[1].username,
                                 [action |-> "tabClosed", tabId |-> tabId[1]])]

handleGroupTab(ws, sessionToken, username, tabId, newGroup) ==
    IF tabId = <<>> \/ newGroup = <<>>
    THEN Respond(ws, StatusMsg("error", "Missing tabId or newGroup"))
    ELSE
    LET user == findSession(sessionToken, username) IN
    IF user = <<>> THEN LogoutInvalid(ws)
    ELSE LET matched == {d \in Tab : d["_id"] = tabId[1] /\ d.username = user[1].username}
         IN  IF matched = {}
             THEN Respond(ws, StatusMsg("error", "Tab not found or unauthorized"))
             ELSE [Same EXCEPT
                     !.Tab = updateWhere(Tab, matched, TabPaths, [group |-> newGroup[1]]),
                     !.out = broadcastToUser(user[1].username,
                                 [action |-> "tabGrouped", tabId |-> tabId[1],
                                  newGroup |-> newGroup[1]])]

\* faulty variant: Tab.find({ username }), closed tabs included
handleGetTabs_AllStatuses(ws, sessionToken, username) ==
    LET user == findSession(sessionToken, username) IN
    IF user = <<>> THEN LogoutInvalid(ws)
    ELSE Respond(ws, [action |-> "restoreTabs",
                      tabs |-> {d \in Tab : d.username = user[1].username}])

handleGetTabs(ws, sessionToken, username) ==
    LET user == findSession(sessionToken, username) IN
    IF user = <<>> THEN LogoutInvalid(ws)
    ELSE Respond(ws, [action |-> "restoreTabs",
                      tabs |-> {d \in Tab : d.username = user[1].username
                                            /\ d.status = "active"}])

\* --- shortcuts
handleAddShortcut(ws, sessionToken, username, shortcutData) ==
    LET user == findSession(sessionToken, username) IN
    IF user = <<>> THEN LogoutInvalid(ws)
    ELSE LET given == IF shortcutData = <<>> THEN NoDefaults ELSE shortcutData[1]
             newShortcut == NewDoc(ItemPaths, NoDefaults,
                                   Spread([username |-> user[1].username], given),
                                   nextId)
         IN  IF ~Validates(ItemPaths, newShortcut)
             THEN Respond(ws, StatusMsg("error", "Failed to add shortcut"))
             ELSE [Same EXCEPT
                     !.Shortcut = Shortcut \cup {newShortcut},
                     !.nextId = nextId + 1,
                     !.out = broadcastToUser(user[1].username,
                                 [action |-> "shortcutAdded", shortcut |-> newShortcut])]

handleGetShortcuts(ws, sessionToken, username) ==
    LET user == findSession(sessionToken, username) IN
    IF user = <<>> THEN LogoutInvalid(ws)
    ELSE Respond(ws, [action |-> "shortcutsRetrieved",
                      shortcuts |-> {d \in Shortcut : d.username = user[1].username}])

handleDeleteShortcut(ws, sessionToken, username, shortcutId) ==
    IF shortcutId = <<>>
    THEN Respond(ws, StatusMsg("error", "Missing shortcutId"))
    ELSE
    LET user == findSession(sessionToken, username) IN
    IF user = <<>> THEN LogoutInvalid(ws)
    ELSE \* Shortcut.findByIdAndDelete(shortcutId): by _id alone
         IF ~\E d \in Shortcut : d["_id"] = shortcutId[1]
         THEN Respond(ws, StatusMsg("error", "Shortcut not found"))
         ELSE [Same EXCEPT
                 !.Shortcut = {d \in Shortcut : d["_id"] # shortcutId[1]},
                 !.out = broadcastToUser(user[1].username,
                             [action |-> "shortcutDeleted", id |-> shortcutId[1]])]

\* --- history
handleAddHistory(ws, sessionToken, username, historyData) ==
    LET user == findSession(sessionToken, username) IN
    IF user = <<>> THEN LogoutInvalid(ws)
    ELSE LET given == IF historyData = <<>> THEN NoDefaults ELSE historyData[1]
             newHistory == NewDoc(ItemPaths, NoDefaults,
                                  Spread([username |-> user[1].username], given),
                                  nextId)
         IN  IF ~Validates(ItemPaths, newHistory)
             THEN Respond(ws, StatusMsg("error", "Failed to add history"))
             ELSE [Same EXCEPT
                     !.History = History \cup {newHistory},
                     !.nextId = nextId + 1]

handleGetHistory(ws, sessionToken, username) ==
    LET user == findSession(sessionToken, username) IN
    IF user = <<>> THEN LogoutInvalid(ws)
    ELSE Respond(ws, [action |-> "historyRetrieved",
                      history |-> {d \in History : d.username = user[1].username}])

\* faulty variant: History.deleteMany({}), every user's entries
handleDeleteHistory_Everyone(ws, sessionToken, username) ==
    LET user == findSession(sessionToken, username) IN
    IF user = <<>> THEN LogoutInvalid(ws)
    ELSE [Same EXCEPT
            !.History = {},
            !.out = Send(ws, [action |-> "historyDeleted"])]

handleDeleteHistory(ws, sessionToken, username) ==
    LET user == findSession(sessionToken, username) IN
    IF user = <<>> THEN LogoutInvalid(ws)
    ELSE [Same EXCEPT
            !.History = {d \in History : d.username # user[1].username},
            !.out = Send(ws, [action |-> "historyDeleted"])]

\* --- bookmarks
\* faulty variant: the new bookmark is fanned out like a new shortcut
handleAddBookmark_Broadcast(ws, sessionToken, username, bookmarkData) ==
    LET user == findSession(sessionToken, username) IN
    IF user = <<>> THEN LogoutInvalid(ws)
    ELSE LET given == IF bookmarkData = <<>> THEN NoDefaults ELSE bookmarkData[1]
             newBookmark == NewDoc(ItemPaths, NoDefaults,
                                   Spread([username |-> user[1].username], given),
                                   nextId)
         IN  IF ~Validates(ItemPaths, newBookmark)
             THEN Respond(ws, StatusMsg("error", "Failed to add bookmark"))
             ELSE [Same EXCEPT
                     !.Bookmark = Bookmark \cup {newBookmark},
                     !.nextId = nextId + 1,
                     !.out = broadcastToUser(user[1].username,
                                 [action |-> "bookmarkAdded", bookmark |-> newBookmark])]

handleAddBookmark(ws, sessionToken, username, bookmarkData) ==
    LET user == findSession(sessionToken, username) IN
    IF user = <<>> THEN LogoutInvalid(ws)
    ELSE LET given == IF bookmarkData = <<>> THEN NoDefaults ELSE bookmarkData[1]
             newBookmark == NewDoc(ItemPaths, NoDefaults,
                                   Spread([username |-> user[1].username], given),
                                   nextId)
         IN  IF ~Validates(ItemPaths, newBookmark)
             THEN Respond(ws, StatusMsg("error", "Failed to add bookmark"))
             ELSE [Same EXCEPT
                     !.Bookmark = Bookmark \cup {newBookmark},
                     !.nextId = nextId + 1]

handleUpdateBookmark(ws, sessionToken, username, bookmarkData) ==
    IF bookmarkData = <<>> \/ "id" \notin DOMAIN bookmarkData[1]
    THEN Respond(ws, StatusMsg("error", "Missing bookmarkData or bookmarkData.id"))
    ELSE
    LET user == findSession(sessionToken, username) IN
    IF user = <<>> THEN LogoutInvalid(ws)
    ELSE \* Bookmark.findByIdAndUpdate(bookmarkData.id, bookmarkData)
         LET matched == {d \in Bookmark : d["_id"] = bookmarkData[1]["id"]}
         IN  IF matched = {}
             THEN Respond(ws, StatusMsg("error", "Bookmark not found"))
             ELSE [Same EXCEPT
                     !.Bookmark = updateWhere(Bookmark, matched, ItemPaths, bookmarkData[1])]

handleDeleteBookmark(ws, sessionToken, username, bookmarkId) ==
    IF bookmarkId = <<>>
    THEN Respond(ws, StatusMsg("error", "Missing bookmarkId"))
    ELSE
    LET user == findSession(sessionToken, username) IN
    IF user = <<>> THEN LogoutInvalid(ws)
    ELSE \* Bookmark.findByIdAndDelete(bookmarkId)
         IF ~\E d \in Bookmark : d["_id"] = bookmarkId[1]
         THEN Respond(ws, StatusMsg("error", "Bookmark not found"))
         ELSE [Same EXCEPT
                 !.Bookmark = {d \in Bookmark : d["_id"] # bookmarkId[1]}]

\* faulty variant: Bookmark.find({}), every user's bookmarks
handleGetBookmarks_Everyone(ws, sessionToken, username) ==
    LET user == findSession(sessionToken, username) IN
    IF user = <<>> THEN LogoutInvalid(ws)
    ELSE Respond(ws, [action |-> "bookmarksRetrieved", bookmarks |-> Bookmark])

handleGetBookmarks(ws, sessionToken, username) ==
    LET user == findSession(sessionToken, username) IN
    IF user = <<>> THEN LogoutInvalid(ws)
    ELSE Respond(ws, [action |-> "bookmarksRetrieved",
                      bookmarks |-> {d \in Bookmark : d.username = user[1].username}])

\* --- notes
handleAddNote(ws, sessionToken, username, noteData) ==
    LET user == findSession(sessionToken, username) IN
    IF user = <<>> THEN LogoutInvalid(ws)
    ELSE LET given == IF noteData = <<>> THEN NoDefaults ELSE noteData[1]
             newNote == NewDoc(NotePaths, NoDefaults,
                               Spread([username |-> user[1].username], given),
                               nextId)
         IN  IF ~Validates(NotePaths, newNote)
             THEN Respond(ws, StatusMsg("error", "Failed to add note"))
             ELSE [Same EXCEPT
                     !.Note = Note \cup {newNote},
                     !.nextId = nextId + 1]

handleUpdateNote(ws, sessionToken, username, noteData) ==
    IF noteData = <<>> \/ "id" \notin DOMAIN noteData[1]
    THEN Respond(ws, StatusMsg("error", "Missing noteData or noteData.id"))
    ELSE
    LET user == findSession(sessionToken, username) IN
    IF user = <<>> THEN LogoutInvalid(ws)
    ELSE \* Note.findByIdAndUpdate(noteData.id, noteData)
         LET matched == {d \in Note : d["_id"] = noteData[1]["id"]}
         IN  IF matched = {}
             THEN Respond(ws, StatusMsg("error", "Note not found"))
             ELSE [Same EXCEPT
                     !.Note = updateWhere(Note, matched, NotePaths, noteData[1])]

handleDeleteNote(ws, sessionToken, username, noteId) ==
    IF noteId = <<>>
    THEN Respond(ws, StatusMsg("error", "Missing noteId"))
    ELSE
    LET user == findSession(sessionToken, username) IN
    IF user = <<>> THEN LogoutInvalid(ws)
    ELSE \* Note.findByIdAndDelete(noteId)
         IF ~\E d \in Note : d["_id"] = noteId[1]
         THEN Respond(ws, StatusMsg("error", "Note not found"))
         ELSE [Same EXCEPT
                 !.Note = {d \in Note : d["_id"] # noteId[1]}]

handleGetNotes(ws, sessionToken, username) ==
    LET user == findSession(sessionToken, username) IN
    IF user = <<>> THEN LogoutInvalid(ws)
    ELSE Respond(ws, [action |-> "notesRetrieved",
                      notes |-> {d \in Note : d.username = user[1].username}])

\* ------------------------------------------------- ws.on('message', ...)
\* the cases of the switch
Actions ==
    {"createTab", "closeTab", "groupTab", "getTabs",
     "addShortcut", "getShortcuts", "deleteShortcut",
     "addHistory", "getHistory", "deleteHistory",
     "addBookmark", "updateBookmark", "deleteBookmark", "getBookmarks",
     "addNote", "updateNote", "deleteNote", "getNotes"}
CreateActions == {"createTab", "addShortcut", "addHistory", "addBookmark", "addNote"}
\* the cases of the switch that read data.id (and data.newGroup) themselves
DerefActions == {"closeTab", "groupTab", "deleteShortcut", "deleteBookmark", "deleteNote"}

\* data.<k> of a present data object
Field(data, k) == IF k \in DOMAIN data[1] THEN <<data[1][k]>> ELSE <<>>

\* the switch (action) of the message callback
dispatch(ws, action, sessionToken, username, data) ==
    IF action \in DerefActions /\ data = <<>>
    THEN \* TypeError on data.id, caught by the callback's catch
         Respond(ws, StatusMsg("error", "Internal server error"))
    ELSE CASE action = "createTab" -> handleCreateTab(ws, sessionToken, username, data)
           [] action = "closeTab" ->
                handleCloseTab(ws, sessionToken, username, Field(data, "id"))
           [] action = "groupTab" ->
                handleGroupTab(ws, sessionToken, username, Field(data, "id"),
                               Field(data, "newGroup"))
           [] action = "getTabs" -> handleGetTabs(ws, sessionToken, username)
           [] action = "addShortcut" -> handleAddShortcut(ws, sessionToken, username, data)
           [] action = "getShortcuts" -> handleGetShortcuts(ws, sessionToken, username)
           [] action = "deleteShortcut" ->
                handleDeleteShortcut(ws, sessionToken, username, Field(data, "id"))
           [] action = "addHistory" -> handleAddHistory(ws, sessionToken, username, data)
           [] action = "getHistory" -> handleGetHistory(ws, sessionToken, username)
           [] action = "deleteHistory" -> handleDeleteHistory(ws, sessionToken, username)
           [] action = "addBookmark" -> handleAddBookmark(ws, sessionToken, username, data)
           [] action = "updateBookmark" ->
                handleUpdateBookmark(ws, sessionToken, username, data)
           [] action = "deleteBookmark" ->
                handleDeleteBookmark(ws, sessionToken, username, Field(data, "id"))
           [] action = "getBookmarks" -> handleGetBookmarks(ws, sessionToken, username)
           [] action = "addNote" -> handleAddNote(ws, sessionToken, username, data)
           [] action = "updateNote" -> handleUpdateNote(ws, sessionToken, username, data)
           [] action = "deleteNote" ->
                handleDeleteNote(ws, sessionToken, username, Field(data, "id"))
           [] action = "getNotes" -> handleGetNotes(ws, sessionToken, username)
           [] OTHER -> Respond(ws, StatusMsg("error", "Unknown action"))

\* faulty variant: the pending timer is not cleared
clearDebounce_Never(ws) == conns[ws].timers

\* if (debounceTimer) clearTimeout(debounceTimer)
clearDebounce(ws) ==
    IF conns[ws].debounceTimer = <<>> THEN conns[ws].timers
    ELSE conns[ws].timers \ {conns[ws].debounceTimer[1]}

\* faulty variant: the new timer is set without clearing the pending one
setDebounce_KeepOld(ws, sessionToken, username) ==
    LET t == [username |-> username, sessionToken |-> sessionToken, setAt |-> now]
    IN  [conns EXCEPT ![ws].timers = @ \cup {t},
                      ![ws].debounceTimer = <<t>>]

\* faulty variant: a pending timer is kept and the new message sets none
setDebounce_FirstWins(ws, sessionToken, username) ==
    LET t == [username |-> username, sessionToken |-> sessionToken, setAt |-> now]
    IN  IF conns[ws].timers # {} THEN conns
        ELSE [conns EXCEPT ![ws].timers = {t}, ![ws].debounceTimer = <<t>>]

\* debounceTimer = setTimeout(..., 1000): the callback closes over the
\* message's username and sessionToken
setDebounce(ws, sessionToken, username) ==
    LET t == [username |-> username, sessionToken |-> sessionToken, setAt |-> now]
    IN  [conns EXCEPT ![ws].timers = clearDebounce(ws) \cup {t},
                      ![ws].debounceTimer = <<t>>]

Request(op, ws, sessionToken, username, data) ==
    [op |-> op, conn |-> ws, sessionToken |-> sessionToken,
     username |-> username, data |-> data]

\* faulty variant: only the token is required
missingCredentials_TokenOnly(sessionToken, username) == sessionToken = <<>>

\* if (!sessionToken || !username)
missingCredentials(sessionToken, username) == sessionToken = <<>> \/ username = ""

\* A parsed message arrives on the open connection ws and its handler runs.
Message(ws, action, sessionToken, username, data) ==
    /\ conns[ws].state = "open"
    /\ LET missing == missingCredentials(sessionToken, username)
           e == IF missing
                THEN Respond(ws, StatusMsg("error", "Missing sessionToken or username"))
                ELSE dispatch(ws, action, sessionToken, username, data)
       IN  /\ Tab' = e.Tab
           /\ Shortcut' = e.Shortcut
           /\ History' = e.History
           /\ Bookmark' = e.Bookmark
           /\ Note' = e.Note
           /\ nextId' = e.nextId
           /\ out' = e.out
           /\ conns' = IF missing THEN conns
                       ELSE setDebounce(ws, sessionToken, username)
    /\ last' = Request(action, ws, sessionToken, username, data)
    /\ UNCHANGED <<User, now, issued>>

\* the actions that broadcastToUser is called with
BroadcastActions ==
    {"logout", "tabCreated", "tabClosed", "tabGrouped", "shortcutAdded",
     "shortcutDeleted"}
IsBroadcast(m) == "action" \in DOMAIN m /\ m.action \in BroadcastActions

\* the message each handler's catch block sends
CatchMessage ==
    [a \in Actions |->
        CASE a = "createTab" -> "Failed to create tab"
          [] a = "closeTab" -> "Failed to close tab"
          [] a = "groupTab" -> "Failed to group tab"
          [] a = "getTabs" -> "Failed to get tabs"
          [] a = "addShortcut" -> "Failed to add shortcut"
          [] a = "getShortcuts" -> "Failed to get shortcuts"
          [] a = "deleteShortcut" -> "Failed to delete shortcut"
          [] a = "addHistory" -> "Failed to add history"
          [] a = "getHistory" -> "Failed to get history"
          [] a = "deleteHistory" -> "Failed to delete history"
          [] a = "addBookmark" -> "Failed to add bookmark"
          [] a = "updateBookmark" -> "Failed to update bookmark"
          [] a = "deleteBookmark" -> "Failed to delete bookmark"
          [] a = "getBookmarks" -> "Failed to get bookmarks"
          [] a = "addNote" -> "Failed to add note"
          [] a = "updateNote" -> "Failed to update note"
          [] a = "deleteNote" -> "Failed to delete note"
          [] a = "getNotes" -> "Failed to get notes"]

\* The message never gets to a store operation: the switch throws on data.id,
\* or the handler returns at its test of the id (and of newGroup).
ReturnsEarly(action, data) ==
    \/ action \notin Actions
    \/ /\ action \in DerefActions \cup {"updateBookmark", "updateNote"}
       /\ (data = <<>> \/ Field(data, "id") = <<>>)
    \/ action = "groupTab" /\ data # <<>> /\ Field(data, "newGroup") = <<>>

\* faulty variant: the catch block only logs
caught_Silent(ws, action) == Same

\* catch (error) { logger.error(...); ws.send({ status: 'error', ... }) } of
\* the handler of action
caught(ws, action) == Respond(ws, StatusMsg("error", CatchMessage[action]))

\* A message with credentials arrives on the open connection ws and a store
\* operation of its handler rejects (User.findOne, or the find, save, update
\* or delete that follows it): the rejected operation changes nothing and the
\* handler's catch block runs.
Rejected(ws, action, sessionToken, username, data) ==
    /\ conns[ws].state = "open"
    /\ ~missingCredentials(sessionToken, username)
    /\ ~ReturnsEarly(action, data)
    /\ LET e == caught(ws, action)
       IN  /\ Tab' = e.Tab
           /\ Shortcut' = e.Shortcut
           /\ History' = e.History
           /\ Bookmark' = e.Bookmark
           /\ Note' = e.Note
           /\ nextId' = e.nextId
           /\ out' = e.out
    /\ conns' = setDebounce(ws, sessionToken, username)
    /\ last' = Request(action, ws, sessionToken, username, data) @@ [failure |-> "store"]
    /\ UNCHANGED <<User, now, issued>>

\* the handler whose effect is e answered ws itself, with ws.send
Direct(e, ws) == \E i \in 1..Len(e.out[ws]) : ~IsBroadcast(e.out[ws][i])

\* A message with credentials arrives on the open connection ws, and the
\* transport closes while its handler awaits the store.  The handler
\* completes; what it sends to ws is not delivered.  ws.send on a socket that
\* is not OPEN throws or does nothing, depending on the ws release: a throw
\* inside the handler's try reaches its catch, whose ws.send throws again,
\* then the catch of the message callback, whose ws.send throws again, and
\* leaves the callback as a rejected promise.
MessageThenClose(ws, action, sessionToken, username, data) ==
    /\ conns[ws].state = "open"
    /\ ~missingCredentials(sessionToken, username)
    /\ ~ReturnsEarly(action, data)
    /\ LET e == dispatch(ws, action, sessionToken, username, data)
       IN  /\ Tab' = e.Tab
           /\ Shortcut' = e.Shortcut
           /\ History' = e.History
           /\ Bookmark' = e.Bookmark
           /\ Note' = e.Note
           /\ nextId' = e.nextId
           /\ out' = [e.out EXCEPT ![ws] = <<>>]
           /\ \E threw \in {FALSE, Direct(e, ws)} :
                 last' = Request(action, ws, sessionToken, username, data)
                            @@ [raised |-> threw]
    /\ conns' = [setDebounce(ws, sessionToken, username) EXCEPT ![ws].state = "closed"]
    /\ UNCHANGED <<User, now, issued>>

\* faulty variant: the catch gives up on the connection
Malformed_Closes(ws) ==
    /\ conns[ws].state = "open"
    /\ out' = Send(ws, StatusMsg("error", "Internal server error"))
    /\ conns' = [conns EXCEPT ![ws].state = "closed"]
    /\ last' = Request("malformed", ws, <<>>, "", <<>>)
    /\ UNCHANGED <<User, Tab, Shortcut, History, Bookmark, Note, nextId, now,
                   issued>>

\* A message that JSON.parse rejects, or that parses to null, arrives on the
\* open connection ws: the callback's catch answers it.
Malformed(ws) ==
    /\ conns[ws].state = "open"
    /\ out' = Send(ws, StatusMsg("error", "Internal server error"))
    /\ last' = Request("malformed", ws, <<>>, "", <<>>)
    /\ UNCHANGED <<User, Tab, Shortcut, History, Bookmark, Note, nextId, now,
                   conns, issued>>

\* faulty variant: the username is not stored on the connection
bind_Nothing(cs, ws, username) == cs

\* faulty variant: every connection is bound, not only the one checked
bind_Everyone(cs, ws, username) ==
    [c \in Conns |-> [cs[c] EXCEPT !.username = <<username>>]]

\* ws.username = username
bind(cs, ws, username) == [cs EXCEPT ![ws].username = <<username>>]

\* What the timer callback can still deliver after its ws.send(...): ws.send
\* on a socket that is no longer OPEN either reports the error to its (absent)
\* callback or throws, depending on the ws release, and a throw ends the
\* callback there.
afterSend(ws, o) == IF conns[ws].state = "open" THEN {o} ELSE {o, NoOut}

\* conns once timer t of ws has fired
fired(ws, t) ==
    [conns EXCEPT ![ws].timers = @ \ {t},
                  ![ws].debounceTimer = IF @ = <<t>> THEN <<>> ELSE @]

\* The timer callback of timer t on connection ws, from the reply of
\* User.findOne({ username }) on; cs is conns when it runs.
validate(ws, t, cs) ==
    LET user == findOne(User, {i \in 1..Len(User) : User[i].username = t.username})
        deliver(m) == IF conns[ws].state = "open" THEN Send(ws, m) ELSE NoOut
    IN  IF user = <<>>
        THEN /\ out' = deliver(StatusMsg("logout", "User not found"))
             /\ conns' = cs
             /\ User' = User
        ELSE IF user[1].sessionToken # t.sessionToken
        THEN /\ User' = saveUser(User, user[1].uid, <<>>, user[1].userStatus)
             /\ \E rest \in afterSend(ws, broadcastToUser(t.username,
                                [action |-> "logout", message |-> "Session mismatch"])) :
                   out' = Then(deliver(StatusMsg("logout", "Session mismatch detected")),
                               rest)
             /\ conns' = cs
        ELSE IF user[1].sessionToken = <<>>
        THEN /\ \E rest \in afterSend(ws, broadcastToUser(t.username,
                                [action |-> "logout", message |-> "Session token missing"])) :
                   out' = Then(deliver(StatusMsg("logout", "Session token missing")),
                               rest)
             /\ conns' = cs
             /\ User' = User
        ELSE /\ conns' = bind(cs, ws, t.username)
             /\ out' = deliver(StatusMsg("valid", "Session verified"))
             /\ User' = User

\* The debounce timer t of connection ws fires and its callback runs, the
\* store replying at once.
DebounceFire(ws, t) ==
    /\ t \in conns[ws].timers
    /\ Millis(now) >= Millis(t.setAt) + DebounceDelay
    /\ validate(ws, t, fired(ws, t))
    /\ last' = Request("debounce", ws, t.sessionToken, t.username, <<>>)
    /\ UNCHANGED <<Tab, Shortcut, History, Bookmark, Note, nextId, now, issued>>

\* The same in two steps.  The debounce timer t of connection ws fires: its
\* callback starts and awaits User.findOne({ username }).
TimerExpires(ws, t) ==
    /\ t \in conns[ws].timers
    /\ Millis(now) >= Millis(t.setAt) + DebounceDelay
    /\ conns' = fired(ws, t)
    /\ checks' = [checks EXCEPT ![ws] = @ \cup {t}]
    /\ out' = NoOut
    /\ last' = Request("expire", ws, t.sessionToken, t.username, <<>>)
    /\ UNCHANGED <<User, Tab, Shortcut, History, Bookmark, Note, nextId, now, issued>>

\* The store replies to the User.findOne of the callback of t, which resumes.
StoreReplies(ws, t) ==
    /\ t \in checks[ws]
    /\ validate(ws, t, conns)
    /\ checks' = [checks EXCEPT ![ws] = @ \ {t}]
    /\ last' = Request("debounce", ws, t.sessionToken, t.username, <<>>)
    /\ UNCHANGED <<Tab, Shortcut, History, Bookmark, Note, nextId, now, issued>>

\* The same in three steps, the save of the mismatch branch being awaited too.
\* A callback that awaits its lookup is the timer record; one that awaits its
\* save is that record with the document it read.
AwaitsLookup(t) == "setAt" \in DOMAIN t
AwaitsSave(s) == "user" \in DOMAIN s

\* The store replies to the User.findOne of the callback of t.  On a mismatch
\* the callback sets user.sessionToken = null on the document it read and
\* awaits user.save(); otherwise it runs to its end.
LookupReplies(ws, t) ==
    /\ t \in checks[ws] /\ AwaitsLookup(t)
    /\ LET user == findOne(User, {i \in 1..Len(User) : User[i].username = t.username})
       IN  IF user # <<>> /\ user[1].sessionToken # t.sessionToken
           THEN /\ checks' = [checks EXCEPT ![ws] =
                                 (@ \ {t}) \cup {[check |-> t, user |-> user[1]]}]
                /\ out' = NoOut
                /\ last' = Request("lookup", ws, t.sessionToken, t.username, <<>>)
                /\ UNCHANGED <<User, conns>>
           ELSE /\ validate(ws, t, conns)
                /\ checks' = [checks EXCEPT ![ws] = @ \ {t}]
                /\ last' = Request("debounce", ws, t.sessionToken, t.username, <<>>)
    /\ UNCHANGED <<Tab, Shortcut, History, Bookmark, Note, nextId, now, issued>>

\* user.save() after user.sessionToken = null on the document doc read
\* earlier: mongoose writes the modified paths only, so sessionToken is set
\* to null on the stored document of that _id whatever it holds by now, and
\* nothing is written if doc.sessionToken was null when read.
savePaths(coll, doc) ==
    IF doc.sessionToken = <<>> THEN coll
    ELSE [i \in 1..Len(coll) |->
            IF coll[i].uid = doc.uid THEN [coll[i] EXCEPT !.sessionToken = <<>>]
            ELSE coll[i]]

\* The store replies to the user.save() of the callback s, which sends the
\* logout and broadcasts.
SaveReplies(ws, s) ==
    /\ s \in checks[ws] /\ AwaitsSave(s)
    /\ User' = savePaths(User, s.user)
    /\ \E rest \in afterSend(ws, broadcastToUser(s.check.username,
                        [action |-> "logout", message |-> "Session mismatch"])) :
          out' = Then(IF conns[ws].state = "open"
                      THEN Send(ws, StatusMsg("logout", "Session mismatch detected"))
                      ELSE NoOut,
                      rest)
    /\ checks' = [checks EXCEPT ![ws] = @ \ {s}]
    /\ last' = Request("debounce", ws, s.check.sessionToken, s.check.username, <<>>)
    /\ UNCHANGED <<Tab, Shortcut, History, Bookmark, Note, nextId, now, conns, issued>>

\* The debounce timer t of connection ws fires after the transport has closed.
\* ws.send on a socket that is not OPEN throws or does nothing, depending on
\* the ws release; no send of the callback is inside a try, so a throw ends
\* the callback and leaves it as a rejected promise.
CheckAfterClose(ws, t) ==
    /\ conns[ws].state = "closed"
    /\ t \in conns[ws].timers
    /\ Millis(now) >= Millis(t.setAt) + DebounceDelay
    /\ \E threw \in BOOLEAN :
        LET user == findOne(User, {i \in 1..Len(User) : User[i].username = t.username})
        IN  /\ IF user = <<>>
               THEN /\ out' = NoOut
                    /\ conns' = fired(ws, t)
                    /\ User' = User
               ELSE IF user[1].sessionToken # t.sessionToken
               THEN /\ User' = saveUser(User, user[1].uid, <<>>, user[1].userStatus)
                    /\ out' = IF threw THEN NoOut
                              ELSE broadcastToUser(t.username,
                                      [action |-> "logout", message |-> "Session mismatch"])
                    /\ conns' = fired(ws, t)
               ELSE /\ conns' = bind(fired(ws, t), ws, t.username)
                    /\ out' = NoOut
                    /\ User' = User
            /\ last' = Request("debounce", ws, t.sessionToken, t.username, <<>>)
                           @@ [raised |-> threw]
    /\ UNCHANGED <<Tab, Shortcut, History, Bookmark, Note, nextId, now, issued>>

\* every connection after the process has exited
Exited ==
    [c \in Conns |->
        [conns[c] EXCEPT !.state = "closed", !.timers = {}, !.debounceTimer = <<>>]]

\* The debounce timer t of connection ws fires and a store operation of its
\* callback rejects: User.findOne, or user.save() of the mismatch branch.
\* The callback has no try/catch, so its promise rejects with nobody
\* awaiting it: nothing is sent, and the runtime either reports the
\* unhandled rejection and goes on, or exits.
DebounceRejected(ws, t) ==
    /\ t \in conns[ws].timers
    /\ Millis(now) >= Millis(t.setAt) + DebounceDelay
    /\ conns' \in {fired(ws, t), Exited}
    /\ out' = NoOut
    /\ last' = Request("debounce", ws, t.sessionToken, t.username, <<>>)
                   @@ [failure |-> "store"]
    /\ UNCHANGED <<User, Tab, Shortcut, History, Bookmark, Note, nextId, now, issued>>

\* ws.on('close'): the transport is closed and leaves wss.clients
Close(ws) ==
    /\ conns[ws].state = "open"
    /\ conns' = [conns EXCEPT ![ws].state = "closed"]
    /\ out' = NoOut
    /\ last' = Request("close", ws, <<>>, "", <<>>)
    /\ UNCHANGED <<User, Tab, Shortcut, History, Bookmark, Note, nextId, now,
                   issued>>

\* The socket of the open connection ws gets into a condition in which
\* client.send throws although readyState is still OPEN.
Break(ws) ==
    /\ conns[ws].state = "open"
    /\ ~conns[ws].sendThrows
    /\ conns' = [conns EXCEPT ![ws].sendThrows = TRUE]
    /\ out' = NoOut
    /\ last' = Request("break", ws, <<>>, "", <<>>)
    /\ UNCHANGED <<User, Tab, Shortcut, History, Bookmark, Note, nextId, now,
                   issued>>

\* --- the sockets
\* faulty variant: the newest frames overtake the ones still on the socket
enqueue_Front(q, msgs) == msgs \o q

\* client.send / ws.send: the frames go onto the socket in the order of the
\* calls, behind the frames already on it
enqueue(q, msgs) == q \o msgs

\* the payloads broadcastToUser delivered in o
Broadcast(o) == {m \in UNION {{o[c][i] : i \in 1..Len(o[c])} : c \in Conns} : IsBroadcast(m)}

\* What a step sent goes onto the sockets, and its broadcastToUser call onto
\* the record of calls for its username.
Transmit ==
    /\ wire' = [c \in Conns |-> enqueue(wire[c], out'[c])]
    /\ calls' = IF Broadcast(out') = {} \/ last'.username \notin Users THEN calls
                 ELSE [calls EXCEPT ![last'.username] =
                          Append(@, CHOOSE m \in Broadcast(out') : TRUE)]
    /\ UNCHANGED received

\* The client of connection ws receives the next frame from its socket.
Deliver(ws) ==
    /\ wire[ws] # <<>>
    /\ received' = [received EXCEPT ![ws] = Append(@, Head(wire[ws]))]
    /\ wire' = [wire EXCEPT ![ws] = Tail(@)]
    /\ out' = NoOut
    /\ last' = Request("deliver", ws, <<>>, "", <<>>)
    /\ UNCHANGED <<User, Tab, Shortcut, History, Bookmark, Note, nextId, now,
                   conns, issued, calls>>

\* ------------------------------------------------------------ auth routes
\* jwt.sign({ username }, JWT_SECRET): the payload gets iat, the time in seconds
generateSessionToken(username) == <<username, Millis(now) \div MsPerSecond>>

\* POST /verify with a valid OTP
Verify(username) ==
    /\ LET user == findOne(User, {i \in 1..Len(User) : User[i].username = username})
           sessionToken == generateSessionToken(user[1].username)
       IN  /\ user # <<>>
           /\ User' = saveUser(User, user[1].uid, sessionToken, "verified")
           /\ issued' = issued \cup {sessionToken}
    /\ out' = NoOut
    /\ last' = Request("verify", "http", <<>>, username, <<>>)
    /\ UNCHANGED <<Tab, Shortcut, History, Bookmark, Note, nextId, now, conns>>

\* POST /logout with Authorization: Bearer sessionToken
Logout(sessionToken) ==
    /\ sessionToken # <<>>
    /\ LET user == findOne(User, {i \in 1..Len(User) : User[i].sessionToken = sessionToken})
       IN  /\ user # <<>>
           /\ User' = saveUser(User, user[1].uid, <<>>, user[1].userStatus)
    /\ out' = NoOut
    /\ last' = Request("logout", "http", sessionToken, "", <<>>)
    /\ UNCHANGED <<Tab, Shortcut, History, Bookmark, Note, nextId, now, conns,
                   issued>>

\* the _id of a new User document: one no stored document has
FreeUid == CHOOSE n \in 1..(Len(User) + 1) : \A i \in 1..Len(User) : User[i].uid # n

\* POST /register, up to the reply of User.findOne({ $or: [{ username },
\* { email }] }).  User documents carry no email in the model: the address of
\* each request is one no stored document has, so that the filter matches by
\* username.  A match is answered with 400; otherwise the request goes on to
\* await generateTotpSecretAndQr and newUser.save().
RegisterLookup(r, username) ==
    /\ pending[r] = <<>>
    /\ Len(User) + Cardinality({q \in Registrations : pending[q] # <<>>}) < MaxAccounts
    /\ LET existingUser ==
               findOne(User, {i \in 1..Len(User) : User[i].username = username})
       IN  pending' = IF existingUser # <<>> THEN pending
                      ELSE [pending EXCEPT ![r] = <<username>>]
    /\ out' = NoOut
    /\ last' = Request("register", "http", <<>>, username, <<>>)
    /\ UNCHANGED <<User, Tab, Shortcut, History, Bookmark, Note, nextId, now, conns,
                   issued>>

\* POST /register, from new User({ username, email, totpSecret }) on: save()
\* inserts the document, userStatus 'init' and sessionToken null by default.
\* userSchema declares no unique index.
RegisterSave(r) ==
    /\ pending[r] # <<>>
    /\ User' = Append(User, [uid |-> FreeUid, username |-> pending[r][1],
                             sessionToken |-> <<>>, userStatus |-> "init"])
    /\ pending' = [pending EXCEPT ![r] = <<>>]
    /\ out' = NoOut
    /\ last' = Request("registered", "http", <<>>, pending[r][1], <<>>)
    /\ UNCHANGED <<Tab, Shortcut, History, Bookmark, Note, nextId, now, conns,
                   issued>>

\* the filter of the sweep does not match user
Survives(user) == user.userStatus # "init"

\* userCleanupJob: User.deleteMany({ userStatus: 'init' })
Sweep ==
    /\ User' = SelectSeq(User, Survives)
    /\ out' = NoOut
    /\ last' = Request("sweep", "cron", <<>>, "", <<>>)
    /\ UNCHANGED <<Tab, Shortcut, History, Bookmark, Note, nextId, now, conns,
                   issued, pending>>

\* time passes
Tick ==
    /\ now < MaxTicks
    /\ now' = now + 1
    /\ out' = NoOut
    /\ last' = Request("tick", "clock", <<>>, "", <<>>)
    /\ UNCHANGED <<User, Tab, Shortcut, History, Bookmark, Note, nextId, conns,
                   issued>>

\* the session middleware: a sessiontoken header that some User holds
sessionMiddleware(sessionToken) ==
    /\ sessionToken # <<>>
    /\ findOne(User, {i \in 1..Len(User) : User[i].sessionToken = sessionToken}) # <<>>

\* Model.deleteMany({ username })
deleteMany(coll, username) == {d \in coll : d.username # username}

\* User.deleteOne({ username }): the first matching document is removed
deleteOne(coll, username) ==
    LET idx == {i \in 1..Len(coll) : coll[i].username = username} IN
    IF idx = {} THEN coll
    ELSE LET k == CHOOSE i \in idx : \A j \in idx : i <= j
         IN  [j \in 1..(Len(coll) - 1) |-> IF j < k THEN coll[j] ELSE coll[j + 1]]

\* POST /delete-session with a sessiontoken header and { username } in the
\* body, answered 200
DeleteSession(sessionToken, username) ==
    /\ sessionMiddleware(sessionToken)
    /\ LET user == findOne(User, {i \in 1..Len(User) : User[i].username = username})
       IN  /\ user # <<>>
           /\ Tab' = deleteMany(Tab, username)
           /\ User' = saveUser(User, user[1].uid, <<>>, user[1].userStatus)
    /\ out' = NoOut
    /\ last' = Request("delete-session", "http", sessionToken, username, <<>>)
    /\ UNCHANGED <<Shortcut, History, Bookmark, Note, nextId, now, conns, issued>>

\* POST /delete-user with a sessiontoken header and { username } in the
\* body, answered 200
DeleteUser(sessionToken, username) ==
    /\ sessionMiddleware(sessionToken)
    /\ LET user == findOne(User, {i \in 1..Len(User) : User[i].username = username})
       IN  /\ user # <<>>
           /\ Tab' = deleteMany(Tab, username)
           /\ User' = deleteOne(User, username)
    /\ out' = NoOut
    /\ last' = Request("delete-user", "http", sessionToken, username, <<>>)
    /\ UNCHANGED <<Shortcut, History, Bookmark, Note, nextId, now, conns, issued>>

\* time passes without end: once the clock shows MaxTicks it is the pending
\* timers that are moved back one tick, which leaves every "due in" as it
\* would be had the clock advanced
Rebase(t) ==
    [t EXCEPT !.setAt = IF Millis(@) + DebounceDelay > Millis(now) /\ @ > 0
                        THEN @ - 1 ELSE @]
Elapse ==
    /\ now' = IF now < MaxTicks THEN now + 1 ELSE now
    /\ conns' = IF now < MaxTicks THEN conns
                ELSE [c \in Conns |->
                        [conns[c] EXCEPT
                           !.timers = {Rebase(t) : t \in @},
                           !.debounceTimer = IF @ = <<>> THEN <<>>
                                             ELSE <<Rebase(@[1])>>]]
    /\ out' = NoOut
    /\ last' = Request("tick", "clock", <<>>, "", <<>>)
    /\ UNCHANGED <<User, Tab, Shortcut, History, Bookmark, Note, nextId, issued>>

\* --------------------------------------------------------- specifications
NoRequest == Request("none", "none", <<>>, "", <<>>)

NewConn ==
    [state |-> "open", username |-> <<>>, timers |-> {}, debounceTimer |-> <<>>,
     sendThrows |-> FALSE]

UserDoc(uid, username, sessionToken, userStatus) ==
    [uid |-> uid, username |-> username, sessionToken |-> sessionToken,
     userStatus |-> userStatus]

\* the account each client device uses
ClientUser == [c \in Conns |-> IF c = "c3" THEN "bob" ELSE "alice"]

\* alice and bob have registered and logged in during the first second, and
\* every client has opened its connection; nothing has been sent yet.
InitQuiet ==
    /\ User = <<UserDoc(1, "alice", <<"alice", 0>>, "verified"),
                UserDoc(2, "bob", <<"bob", 0>>, "verified")>>
    /\ Tab = {} /\ Shortcut = {} /\ History = {} /\ Bookmark = {} /\ Note = {}
    /\ nextId = 1
    /\ now = 0
    /\ conns = [c \in Conns |-> NewConn]
    /\ issued = {<<"alice", 0>>, <<"bob", 0>>}
    /\ arrivals = [c \in Conns |-> {}]
    /\ lookups = [c \in Conns |-> <<>>]
    /\ checks = [c \in Conns |-> {}]
    /\ pending = [r \in Registrations |-> <<>>]
    /\ wire = [c \in Conns |-> <<>>]
    /\ received = [c \in Conns |-> <<>>]
    /\ calls = [u \in Users |-> <<>>]
    /\ out = NoOut
    /\ last = NoRequest

\* the timer of a client's first message, sent at tick 0 with its credentials
FirstTimer(c) ==
    [username |-> ClientUser[c], sessionToken |-> <<ClientUser[c], 0>>, setAt |-> 0]

\* One debounce delay after InitQuiet: every client sent one message at tick 0
\* with its valid credentials, and the timer that message set is now due.
Init ==
    /\ User = <<UserDoc(1, "alice", <<"alice", 0>>, "verified"),
                UserDoc(2, "bob", <<"bob", 0>>, "verified")>>
    /\ Tab = {} /\ Shortcut = {} /\ History = {} /\ Bookmark = {} /\ Note = {}
    /\ nextId = 1
    /\ now = DebounceDelay \div TickMs
    /\ conns = [c \in Conns |->
                  [NewConn EXCEPT !.timers = {FirstTimer(c)},
                                  !.debounceTimer = <<FirstTimer(c)>>]]
    /\ issued = {<<"alice", 0>>, <<"bob", 0>>}
    /\ arrivals = [c \in Conns |-> {0}]
    /\ lookups = [c \in Conns |-> <<>>]
    /\ checks = [c \in Conns |-> {}]
    /\ pending = [r \in Registrations |-> <<>>]
    /\ wire = [c \in Conns |-> <<>>]
    /\ received = [c \in Conns |-> <<>>]
    /\ calls = [u \in Users |-> <<>>]
    /\ out = NoOut
    /\ last = Request("tick", "clock", <<>>, "", <<>>)

\* Init after the three due timers have fired, c3's last: every connection
\* is bound to its account and no timer is pending.
InitBound ==
    /\ User = <<UserDoc(1, "alice", <<"alice", 0>>, "verified"),
                UserDoc(2, "bob", <<"bob", 0>>, "verified")>>
    /\ Tab = {} /\ Shortcut = {} /\ History = {} /\ Bookmark = {} /\ Note = {}
    /\ nextId = 1
    /\ now = DebounceDelay \div TickMs
    /\ conns = [c \in Conns |-> [NewConn EXCEPT !.username = <<ClientUser[c]>>]]
    /\ issued = {<<"alice", 0>>, <<"bob", 0>>}
    /\ arrivals = [c \in Conns |-> {0}]
    /\ lookups = [c \in Conns |-> <<>>]
    /\ checks = [c \in Conns |-> {}]
    /\ pending = [r \in Registrations |-> <<>>]
    /\ wire = [c \in Conns |-> <<>>]
    /\ received = [c \in Conns |-> <<>>]
    /\ calls = [u \in Users |-> <<>>]
    /\ out = Send("c3", StatusMsg("valid", "Session verified"))
    /\ last = Request("debounce", "c3", <<"bob", 0>>, "bob", <<>>)

\* the tokens /verify has issued to a client's account
ValidTokens(c) == {t \in issued : t[1] = ClientUser[c]}
\* what a client can present: those, or a forged token
ClientTokens(c) == ValidTokens(c) \cup {<<"forged", 0>>}

TabData == { <<[title |-> "Docs", url |-> "https://x"]>> }
IdData == { <<[id |-> i]>> : i \in 1..MaxDocs }

\* the specifications that do not look at the sockets leave them alone
Unsent == UNCHANGED <<wire, received, calls>>

\* arrivals and lookups observe the debounce, and checks holds the callbacks
\* that await the store; the specifications that do not look at them leave
\* them alone
Unobserved == UNCHANGED <<arrivals, lookups, checks, pending>> /\ Unsent

\* --- Spec: the tab actions and their broadcasts
TabMessage(c) ==
    \E tok \in ValidTokens(c) :
        \/ /\ nextId <= MaxDocs
           /\ \E d \in TabData : Message(c, "createTab", tok, ClientUser[c], d)
        \/ \E d \in IdData : Message(c, "closeTab", tok, ClientUser[c], d)
        \/ Message(c, "getTabs", tok, ClientUser[c], <<>>)

Next ==
    \/ \E c \in Conns : TabMessage(c) /\ Unobserved
    \/ \E c \in Conns : \E t \in conns[c].timers : DebounceFire(c, t) /\ Unobserved
    \/ \E c \in Conns : Close(c) /\ Unobserved

Spec == Init /\ [][Next]_vars

\* --- SpecSession: login, logout and the debounced validator
SessionConns == {"c1", "c2"}

SessionMessage(c) ==
    \E tok \in ValidTokens(c) :
        \/ /\ nextId <= MaxItems
           /\ \E d \in TabData : Message(c, "createTab", tok, ClientUser[c], d)
        \/ Message(c, "getTabs", tok, ClientUser[c], <<>>)

\* any of the seventeen actions, with a token that is not the stored one
StaleMessage(c) ==
    \E tok \in ValidTokens(c) : \E a \in Actions :
        /\ ~\E i \in 1..Len(User) : User[i].sessionToken = tok
        /\ Message(c, a, tok, ClientUser[c], <<[id |-> 1]>>)

NextSession ==
    \/ StaleMessage("c2") /\ Unobserved
    \/ \E c \in SessionConns : SessionMessage(c) /\ Unobserved
    \/ \E c \in SessionConns : \E t \in conns[c].timers : DebounceFire(c, t) /\ Unobserved
    \/ Verify("alice") /\ Unobserved
    \/ \E tok \in ValidTokens("c1") : Logout(tok) /\ Unobserved
    \/ Tick /\ Unobserved

SpecSession == Init /\ [][NextSession]_vars

\* --- SpecDebounce: one connection, its messages and its timer, observed
ObservedMessage(c, sessionToken, username) ==
    /\ Message(c, "getTabs", sessionToken, username, <<>>)
    /\ arrivals' = [arrivals EXCEPT ![c] = @ \cup {now}]
    /\ UNCHANGED <<lookups, checks, pending>> /\ Unsent

ObservedFire(c, t) ==
    /\ DebounceFire(c, t)
    /\ lookups' = [lookups EXCEPT ![c] = Append(@, t.setAt)]
    /\ UNCHANGED <<arrivals, checks, pending>> /\ Unsent

NextDebounce ==
    \/ \E tok \in ClientTokens("c1") \cup {<<>>} : ObservedMessage("c1", tok, "alice")
    \/ \E t \in conns["c1"].timers : ObservedFire("c1", t)
    \/ Tick /\ Unobserved

SpecDebounce == InitQuiet /\ [][NextDebounce]_vars

\* --- SpecInflight: the timer callback in two steps, the store replying late
InflightConns == {"c1", "c3"}

NextInflight ==
    \/ \E c \in InflightConns : \E tok \in ClientTokens(c) :
          /\ Message(c, "getTabs", tok, ClientUser[c], <<>>)
          /\ Unobserved
    \/ \E c \in InflightConns : \E t \in conns[c].timers :
          TimerExpires(c, t) /\ UNCHANGED <<arrivals, lookups, pending>> /\ Unsent
    \/ \E c \in InflightConns : \E t \in checks[c] :
          StoreReplies(c, t) /\ UNCHANGED <<arrivals, lookups, pending>> /\ Unsent
    \/ Tick /\ Unobserved

SpecInflight == InitQuiet /\ [][NextInflight]_vars

\* --- SpecClose: a connection that closes with a check pending, beside an
\* open connection of the same user that keeps broadcasting
NextClose ==
    \/ /\ \E tok \in ClientTokens("c1") : Message("c1", "getTabs", tok, ClientUser["c1"], <<>>)
       /\ Unobserved
    \/ /\ nextId <= MaxDocs
       /\ \E tok \in ValidTokens("c2") : \E d \in TabData :
             Message("c2", "createTab", tok, ClientUser["c2"], d)
       /\ Unobserved
    \/ Close("c1") /\ Unobserved
    \/ \E c \in Conns : \E t \in conns[c].timers : DebounceFire(c, t) /\ Unobserved
    \/ Tick /\ Unobserved

SpecClose == InitBound /\ [][NextClose]_vars

\* --- SpecDelivery: broadcasts while the socket of a listening connection
\* throws on send
NextDelivery ==
    \/ \E c \in {"c2", "c3"} : TabMessage(c) /\ Unobserved
    \/ Break("c1") /\ Unobserved
    \/ Close("c1") /\ Unobserved
    \/ \E c \in Conns : \E t \in conns[c].timers : DebounceFire(c, t) /\ Unobserved
    \/ Tick /\ Unobserved

SpecDelivery == InitBound /\ [][NextDelivery]_vars

\* --- SpecFifo: two connections of one user send tab messages while the
\* clients read their sockets
NextFifo ==
    \/ \E c \in {"c1", "c2"} :
          /\ \A d \in Conns : Len(wire[d]) + Len(received[d]) < MaxFrames
          /\ TabMessage(c)
          /\ Transmit
          /\ UNCHANGED <<arrivals, lookups, checks, pending>>
    \/ \E c \in Conns : Deliver(c) /\ UNCHANGED <<arrivals, lookups, checks, pending>>
    \/ /\ Close("c2")
       /\ UNCHANGED <<arrivals, lookups, checks, pending>> /\ Unsent

SpecFifo == InitBound /\ [][NextFifo]_vars

\* --- SpecProtocol: well-formed and ill-formed messages on one connection
\* an action name outside the switch
UnknownAction == "ping"

\* a username no User document has
UnknownUser == "carol"

ProtocolMessage(c) ==
    \E tok \in ClientTokens(c) \cup {<<>>} : \E u \in {ClientUser[c], UnknownUser, ""} :
        \/ /\ nextId <= MaxItems
           /\ \E d \in TabData : Message(c, "createTab", tok, u, d)
        \/ Message(c, "getTabs", tok, u, <<>>)
        \/ Message(c, UnknownAction, tok, u, <<>>)

NextProtocol ==
    \/ ProtocolMessage("c1") /\ Unobserved
    \/ Malformed("c1") /\ Unobserved
    \/ \E c \in Conns : \E t \in conns[c].timers : DebounceFire(c, t) /\ Unobserved
    \/ \E tok \in ValidTokens("c1") : Logout(tok) /\ Unobserved
    \/ Tick /\ Unobserved

SpecProtocol == Init /\ [][NextProtocol]_vars

\* --- SpecResources: the seventeen actions on the five collections
OtherUser(c) == CHOOSE u \in Users : u # ClientUser[c]
EmptyObject == [k \in {} |-> ""]

\* what a client sends with an add action: the fields, alone or with a
\* username field naming the other account
ItemData(c) ==
    { <<[title |-> "Docs", url |-> "https://x"]>>,
      <<[title |-> "Docs", url |-> "https://x", username |-> OtherUser(c)]>> }
NoteData(c) ==
    { <<[content |-> "memo"]>>,
      <<[content |-> "memo", username |-> OtherUser(c)]>> }
\* ... with an update action: an id and a new title/content, or a username
ItemUpdate(c) ==
    { <<[id |-> i, title |-> "New"]>> : i \in 1..MaxItems } \cup
    { <<[id |-> i, username |-> ClientUser[c]]>> : i \in 1..MaxItems }
NoteUpdate(c) ==
    { <<[id |-> i, content |-> "New"]>> : i \in 1..MaxItems } \cup
    { <<[id |-> i, username |-> ClientUser[c]]>> : i \in 1..MaxItems }
\* ... with a close/delete action: an id, or nothing
ItemId == { <<[id |-> i]>> : i \in 1..MaxItems } \cup { <<EmptyObject>>, <<>> }
GroupData == { <<[id |-> i, newGroup |-> "work"]>> : i \in 1..MaxItems }

\* a create/add message with the client's valid credentials
AddMessage(c) ==
    \E tok \in ValidTokens(c) :
        /\ nextId <= MaxItems
        /\ \/ \E a \in {"createTab", "addShortcut", "addHistory", "addBookmark"} :
                 \E d \in ItemData(c) : Message(c, a, tok, ClientUser[c], d)
           \/ \E d \in NoteData(c) : Message(c, "addNote", tok, ClientUser[c], d)

\* a message with the client's valid credentials: any of the seventeen actions
ResourceMessage(c) ==
    \/ AddMessage(c)
    \/ \E tok \in ValidTokens(c) :
        \/ \E d \in ItemUpdate(c) : Message(c, "updateBookmark", tok, ClientUser[c], d)
        \/ \E d \in NoteUpdate(c) : Message(c, "updateNote", tok, ClientUser[c], d)
        \/ \E a \in {"closeTab", "deleteShortcut", "deleteBookmark", "deleteNote"} :
               \E d \in ItemId : Message(c, a, tok, ClientUser[c], d)
        \/ \E d \in GroupData : Message(c, "groupTab", tok, ClientUser[c], d)
        \/ \E a \in {"getTabs", "getShortcuts", "getHistory", "deleteHistory",
                     "getBookmarks", "getNotes"} :
               Message(c, a, tok, ClientUser[c], <<>>)

\* an update/delete message with the client's valid credentials and an id
TargetMessage(c) ==
    \E tok \in ValidTokens(c) :
        \/ \E d \in ItemUpdate(c) : Message(c, "updateBookmark", tok, ClientUser[c], d)
        \/ \E d \in NoteUpdate(c) : Message(c, "updateNote", tok, ClientUser[c], d)
        \/ \E a \in {"closeTab", "deleteShortcut", "deleteBookmark", "deleteNote"} :
               \E d \in ItemId : Message(c, a, tok, ClientUser[c], d)
        \/ \E d \in GroupData : Message(c, "groupTab", tok, ClientUser[c], d)

\* a message with a forged token
ForgedMessage(c) ==
    \E a \in Actions : \E d \in ItemId :
        Message(c, a, <<"forged", 0>>, ClientUser[c], d)

NextResources ==
    \/ ResourceMessage("c1") /\ Unobserved
    \/ TargetMessage("c3") /\ Unobserved

SpecResources == InitBound /\ [][NextResources]_vars

\* --- SpecForged: the seventeen actions reached with a token no User holds
NextForged ==
    \/ AddMessage("c1") /\ Unobserved
    \/ ForgedMessage("c3") /\ Unobserved

SpecForged == InitBound /\ [][NextForged]_vars

\* --- SpecFailure: handlers whose store operation rejects or whose document
\* fails validation, beside a listening connection of the same user
PartialData == { <<>>, <<EmptyObject>>, <<[title |-> "Docs"]>> }

InvalidAddMessage(c) ==
    \E tok \in ValidTokens(c) : \E a \in CreateActions : \E d \in PartialData :
        Message(c, a, tok, ClientUser[c], d)

RejectedMessage(c) ==
    \E tok \in ValidTokens(c) : \E a \in Actions : \E d \in GroupData \cup TabData :
        Rejected(c, a, tok, ClientUser[c], d)

NextFailure ==
    \/ AddMessage("c1") /\ Unobserved
    \/ InvalidAddMessage("c1") /\ Unobserved
    \/ RejectedMessage("c1") /\ Unobserved
    \/ Tick /\ Unobserved

SpecFailure == InitBound /\ [][NextFailure]_vars

\* --- SpecOutage: the store rejects during handlers and during debounce checks
NextOutage ==
    \/ \E c \in {"c1", "c3"} : \E tok \in ClientTokens(c) :
          Message(c, "getTabs", tok, ClientUser[c], <<>>) /\ Unobserved
    \/ \E c \in {"c1", "c3"} : \E tok \in ClientTokens(c) :
          Rejected(c, "getTabs", tok, ClientUser[c], <<>>) /\ Unobserved
    \/ \E c \in Conns : \E t \in conns[c].timers : DebounceFire(c, t) /\ Unobserved
    \/ \E c \in Conns : \E t \in conns[c].timers : DebounceRejected(c, t) /\ Unobserved
    \/ Tick /\ Unobserved

SpecOutage == Init /\ [][NextOutage]_vars

\* --- SpecHangup: the transport closes while a handler or a check is in flight
HangupConns == {"c1", "c2"}

NextHangup ==
    \/ \E c \in HangupConns : \E tok \in ClientTokens(c) :
          Message(c, "getTabs", tok, ClientUser[c], <<>>) /\ Unobserved
    \/ \E c \in HangupConns : \E tok \in ClientTokens(c) :
          \/ MessageThenClose(c, "getTabs", tok, ClientUser[c], <<>>) /\ Unobserved
          \/ /\ nextId <= MaxDocs
             /\ \E d \in TabData : MessageThenClose(c, "createTab", tok, ClientUser[c], d)
             /\ Unobserved
    \/ \E c \in HangupConns : \E t \in conns[c].timers :
          conns[c].state = "open" /\ DebounceFire(c, t) /\ Unobserved
    \/ \E c \in HangupConns : \E t \in conns[c].timers :
          CheckAfterClose(c, t) /\ Unobserved
    \/ Tick /\ Unobserved

SpecHangup == InitBound /\ [][NextHangup]_vars

\* --- SpecFields: messages that lack a field their action needs
SparseData == PartialData \cup { <<[id |-> 1]>> }

SparseMessage(c) ==
    \E tok \in ClientTokens(c) :
        \E a \in CreateActions \cup DerefActions \cup {"updateBookmark", "updateNote"} :
            \E d \in SparseData : Message(c, a, tok, ClientUser[c], d)

NextFields ==
    \/ AddMessage("c1") /\ Unobserved
    \/ SparseMessage("c1") /\ Unobserved

SpecFields == InitBound /\ [][NextFields]_vars

\* --- SpecAccounts: registration, login and the cleanup sweep
Unconnected == UNCHANGED <<arrivals, lookups, checks>> /\ Unsent

NextAccounts ==
    \/ \E r \in Registrations : \E u \in {"alice", UnknownUser} :
          RegisterLookup(r, u) /\ Unconnected
    \/ \E r \in Registrations : RegisterSave(r) /\ Unconnected
    \/ Verify(UnknownUser) /\ Unobserved
    \/ Sweep /\ Unconnected
    \/ Tick /\ Unobserved

SpecAccounts == InitQuiet /\ [][NextAccounts]_vars

\* --- SpecBurst: bursts of credentialed messages on one connection, observed;
\* a timer that is due runs before the clock moves on and before a message
\* that arrives no earlier than it is due (the timers phase of the event
\* loop precedes its poll phase)
Idle ==
    \A c \in Conns : \A t \in conns[c].timers :
        Millis(now) < Millis(t.setAt) + DebounceDelay

BurstMessage(c, action, sessionToken, username, data) ==
    /\ Message(c, action, sessionToken, username, data)
    /\ arrivals' = [arrivals EXCEPT ![c] = @ \cup {now}]
    /\ UNCHANGED <<lookups, checks, pending>> /\ Unsent

NextBurst ==
    \/ /\ Idle
       /\ nextId <= MaxItems
       /\ \E tok \in ClientTokens("c1") : \E u \in {"alice", UnknownUser} :
             \E d \in TabData : BurstMessage("c1", "createTab", tok, u, d)
    \/ /\ Idle
       /\ \E tok \in ClientTokens("c1") : \E u \in {"alice", UnknownUser} :
             BurstMessage("c1", "getTabs", tok, u, <<>>)
    \/ \E t \in conns["c1"].timers : ObservedFire("c1", t)
    \/ Idle /\ Tick /\ Unobserved

SpecBurst == InitQuiet /\ [][NextBurst]_vars

\* --- SpecLostUpdate: a login while a debounce callback awaits the store
NextLostUpdate ==
    \/ \E tok \in ClientTokens("c1") :
          Message("c1", "getTabs", tok, "alice", <<>>) /\ Unobserved
    \/ \E t \in conns["c1"].timers :
          TimerExpires("c1", t) /\ UNCHANGED <<arrivals, lookups, pending>> /\ Unsent
    \/ \E t \in checks["c1"] :
          LookupReplies("c1", t) /\ UNCHANGED <<arrivals, lookups, pending>> /\ Unsent
    \/ \E s \in checks["c1"] :
          SaveReplies("c1", s) /\ UNCHANGED <<arrivals, lookups, pending>> /\ Unsent
    \/ Verify("alice") /\ Unobserved
    \/ Tick /\ Unobserved

SpecLostUpdate == Init /\ [][NextLostUpdate]_vars

\* --- SpecBinding: two devices of one account, one of which may present a
\* forged token, beside a bound connection of another account
BindingConns == {"c1", "c2"}

NextBinding ==
    \/ \E c \in BindingConns : \E tok \in ClientTokens(c) :
          /\ nextId <= MaxItems
          /\ \E d \in TabData : Message(c, "createTab", tok, ClientUser[c], d)
          /\ Unobserved
    \/ \E c \in BindingConns : \E tok \in ClientTokens(c) :
          Message(c, "getTabs", tok, ClientUser[c], <<>>) /\ Unobserved
    \/ \E c \in BindingConns : \E t \in conns[c].timers : DebounceFire(c, t) /\ Unobserved
    \/ Tick /\ Unobserved

SpecBinding == Init /\ [][NextBinding]_vars

\* --- SpecDeletion: the two accounts, their records, and the two deletions
\* requested with either account's token for either username
DeletionConns == {"c1", "c3"}

NextDeletion ==
    \/ \E c \in DeletionConns : AddMessage(c) /\ Unobserved
    \/ \E c \in DeletionConns : \E tok \in ValidTokens(c) : \E u \in Users :
          DeleteSession(tok, u) /\ Unobserved
    \/ \E c \in DeletionConns : \E tok \in ValidTokens(c) : \E u \in Users :
          DeleteUser(tok, u) /\ Unobserved

SpecDeletion == InitBound /\ [][NextDeletion]_vars

\* --- SpecHistory: both accounts add history entries and bookmarks, and
\* clear their history
HistoryConns == {"c1", "c3"}

NextHistory ==
    \/ \E c \in HistoryConns : \E tok \in ValidTokens(c) :
          /\ nextId <= MaxDocs
          /\ \E a \in {"addHistory", "addBookmark"} : \E d \in ItemData(c) :
                Message(c, a, tok, ClientUser[c], d)
          /\ Unobserved
    \/ \E c \in HistoryConns : \E tok \in ValidTokens(c) :
          Message(c, "deleteHistory", tok, ClientUser[c], <<>>) /\ Unobserved

SpecHistory == InitBound /\ [][NextHistory]_vars

\* --- SpecKeepalive: clients that go on sending, time that goes on passing.
\* A due timer runs before anything else (Idle), the clock is never stopped,
\* and c1 is never silent for good.
KeepaliveConns == {"c1", "c2"}
KeepaliveMessage(c) ==
    /\ Idle
    /\ \E tok \in ValidTokens(c) :
          \/ /\ nextId <= MaxItems
             /\ \E d \in TabData : Message(c, "createTab", tok, ClientUser[c], d)
          \/ Message(c, "getTabs", tok, ClientUser[c], <<>>)
    /\ Unobserved
KeepaliveFire ==
    \E c \in KeepaliveConns : \E t \in conns[c].timers : DebounceFire(c, t) /\ Unobserved
KeepaliveElapse == Idle /\ Elapse /\ Unobserved

NextKeepalive ==
    \/ \E c \in KeepaliveConns : KeepaliveMessage(c)
    \/ KeepaliveFire
    \/ KeepaliveElapse

SpecKeepalive ==
    /\ InitQuiet /\ [][NextKeepalive]_vars
    /\ WF_vars(KeepaliveFire)
    /\ WF_vars(KeepaliveElapse)
    /\ WF_vars(KeepaliveMessage("c1"))

\* ================================================================ claims
IsStatus(m) == "status" \in DOMAIN m
IsAction(m, a) == "action" \in DOMAIN m /\ m.action = a
\* connection c is open and bound to username
BoundOpen(c, username) == conns[c].state = "open" /\ conns[c].username = <<username>>
\* the last step was the message `op`, and its handler answered no status
\* envelope (logout or error): it went through
Succeeded(op) ==
    /\ last.op = op
    /\ \A i \in 1..Len(out[last.conn]) : ~IsStatus(out[last.conn][i])

\* some User record holds both the username and the (non-null) token of req
Matches(req) ==
    \E i \in 1..Len(User) :
        /\ User[i].username = req.username
        /\ User[i].sessionToken = req.sessionToken
\* req is a message that reaches a handler, with / without matching credentials
Authenticated(req) ==
    /\ req.op \in Actions
    /\ req.sessionToken # <<>> /\ req.username # ""
    /\ Matches(req)
Unauthenticated(req) ==
    /\ req.op \in Actions
    /\ req.sessionToken # <<>> /\ req.username # ""
    /\ ~Matches(req)

\* C4 -- broadcast scope: a successful createTab of user U delivers the
\* tabCreated payload of the new tab to every other open connection bound to
\* U, and nothing to any connection that is not bound to U.
C4_BroadcastScope ==
    Succeeded("createTab") =>
        \E tab \in Tab :
            /\ tab["_id"] = nextId - 1
            /\ \A c \in Conns \ {last.conn} :
                /\ BoundOpen(c, last.username) =>
                       out[c] = <<[action |-> "tabCreated", tab |-> tab]>>
                /\ conns[c].username # <<last.username>> => out[c] = <<>>

C4_Witness ==
    /\ Succeeded("createTab")
    /\ last.conn = "c1"
    /\ BoundOpen("c2", "alice") /\ Len(out["c2"]) = 1
    /\ BoundOpen("c3", "bob") /\ out["c3"] = <<>>

\* C7 -- idempotent re-close, as claimed: a closeTab with valid credentials on
\* a tab that is already closed is answered with an error envelope, nobody
\* receives tabClosed, and the tab stays closed.
C7_RecloseIsError ==
    [][ \A tab \in Tab :
          ( /\ last'.op = "closeTab"
            /\ Authenticated(last')
            /\ last'.data = <<[id |-> tab["_id"]]>>
            /\ tab.username = last'.username
            /\ tab.status = "closed" )
          => /\ tab \in Tab'
             /\ Len(out'[last'.conn]) = 1
             /\ IsStatus(out'[last'.conn][1])
             /\ out'[last'.conn][1].status = "error"
             /\ \A c \in Conns : \A i \in 1..Len(out'[c]) :
                    ~IsAction(out'[c][i], "tabClosed") ]_vars

\* C8 -- after a successful closeTab of user U every other open connection
\* bound to U receives {action: "tabClosed", tabId}; a closed tab is never
\* active again; and getTabs answers exactly U's tabs with status active, so
\* every later getTabs omits the closed tab.
C8_CloseThenGetTabs ==
    /\ [](Succeeded("closeTab") =>
            \A c \in Conns \ {last.conn} :
                BoundOpen(c, last.username) =>
                    out[c] = <<[action |-> "tabClosed", tabId |-> last.data[1]["id"]]>>)
    /\ [](Succeeded("getTabs") =>
            /\ Len(out[last.conn]) = 1
            /\ IsAction(out[last.conn][1], "restoreTabs")
            /\ out[last.conn][1].tabs =
                   {d \in Tab : d.username = last.username /\ d.status = "active"}
            /\ \A d \in Tab : d.status = "closed" => d \notin out[last.conn][1].tabs)
    /\ [][\A d \in Tab : d.status = "closed" =>
              \A e \in Tab' : e["_id"] = d["_id"] => e.status = "closed"]_vars

C8_Witness ==
    /\ Succeeded("getTabs")
    /\ last.username = "alice"
    /\ \E d \in Tab : d.username = "alice" /\ d.status = "closed"
    /\ \E d \in Tab : d.username = "alice" /\ d.status = "active"
    /\ Cardinality(out[last.conn][1].tabs) = 1

\* C3 -- a debounce check whose presented token is not the stored token of the
\* claimed user answers {status: "logout"} first and does not bind; and a
\* handler invoked with such a token changes no resource collection and
\* answers no data payload (it lists nothing).
C3_MismatchIsLogout ==
    [][ /\ ( /\ last'.op = "debounce"
             /\ conns[last'.conn].state = "open"
             /\ ~Matches(last') )
           => /\ Len(out'[last'.conn]) >= 1
              /\ IsStatus(out'[last'.conn][1])
              /\ out'[last'.conn][1].status = "logout"
              /\ conns'[last'.conn].username = conns[last'.conn].username
        /\ Unauthenticated(last')
           => /\ UNCHANGED <<Tab, Shortcut, History, Bookmark, Note>>
              /\ \A c \in Conns : \A i \in 1..Len(out'[c]) : IsStatus(out'[c][i])
      ]_vars

\* a token alice was issued, that is no longer the stored one, was answered logout
C3_Witness ==
    /\ last.op = "debounce"
    /\ last.sessionToken \in issued
    /\ out[last.conn] # <<>>
    /\ out[last.conn][1] = StatusMsg("logout", "Session mismatch detected")

\* C5 -- token takeover, as claimed: when a debounce check fires on an open
\* connection bound to U, another connection being bound to U too, and the
\* stored token of U is not the presented one (it was reissued), the
\* connection receives a logout and is no longer bound to U.
C5_TakeoverUnbinds ==
    [][ ( /\ last'.op = "debounce"
          /\ BoundOpen(last'.conn, last'.username)
          /\ \E c \in Conns \ {last'.conn} : BoundOpen(c, last'.username)
          /\ last'.sessionToken \in issued
          /\ \E d \in {User[i] : i \in 1..Len(User)} :
                /\ d.username = last'.username
                /\ d.sessionToken \in issued \ {last'.sessionToken} )
        => /\ \E i \in 1..Len(out'[last'.conn]) :
                 /\ IsStatus(out'[last'.conn][i])
                 /\ out'[last'.conn][i].status = "logout"
           /\ conns'[last'.conn].username # <<last'.username>>
      ]_vars

\* C6 -- debounce collapse: of the messages that arrive on one connection
\* within any window shorter than the debounce delay, at most one causes a
\* validator lookup.
C6_DebounceCollapse ==
    \A c \in Conns : \A w \in 0..MaxTicks :
        Cardinality({i \in 1..Len(lookups[c]) :
                        /\ Millis(w) <= Millis(lookups[c][i])
                        /\ Millis(lookups[c][i]) < Millis(w) + DebounceDelay}) <= 1

\* two messages half a delay apart, one lookup: for the second
C6_Witness ==
    /\ {0, 1} \subseteq arrivals["c1"]
    /\ lookups["c1"] = <<1>>

\* --- the resource collections as the claims speak of them
UpdateDeleteActions ==
    {"closeTab", "groupTab", "deleteShortcut", "updateBookmark", "deleteBookmark",
     "updateNote", "deleteNote"}
\* the collection an update/delete action works on
StoreOf(op, tabs, shortcuts, bookmarks, notes) ==
    CASE op \in {"closeTab", "groupTab"} -> tabs
      [] op = "deleteShortcut" -> shortcuts
      [] op \in {"updateBookmark", "deleteBookmark"} -> bookmarks
      [] op \in {"updateNote", "deleteNote"} -> notes
      [] OTHER -> {}
AllDocs(tabs, shortcuts, history, bookmarks, notes) ==
    tabs \cup shortcuts \cup history \cup bookmarks \cup notes
\* the message of the step carries data.id = id
Targets(req, id) ==
    req.data # <<>> /\ "id" \in DOMAIN req.data[1] /\ req.data[1]["id"] = id
HasError(msgs) == \E i \in 1..Len(msgs) : IsStatus(msgs[i]) /\ msgs[i].status = "error"

\* C1 -- ownership isolation: an update or delete action sent with U2's valid
\* credentials and the id of a record R owned by another user U1 is answered
\* with an error envelope and leaves R unchanged and present in its store.
C1_OwnershipIsolation ==
    [][ \A R \in StoreOf(last'.op, Tab, Shortcut, Bookmark, Note) :
          ( /\ last'.op \in UpdateDeleteActions
            /\ Authenticated(last')
            /\ R.username # last'.username
            /\ Targets(last', R["_id"]) )
          => /\ R \in StoreOf(last'.op, Tab', Shortcut', Bookmark', Note')
             /\ HasError(out'[last'.conn]) ]_vars

\* C2 -- every record a create/add or update action writes is owned by the
\* username the handler confirmed through {sessionToken, username}, whatever
\* the client put in data.
C2_WrittenRecordsOwnedByConfirmedUser ==
    [][ ( /\ last'.op \in CreateActions \cup UpdateDeleteActions
          /\ Authenticated(last') )
        => \A d \in AllDocs(Tab', Shortcut', History', Bookmark', Note')
                    \ AllDocs(Tab, Shortcut, History, Bookmark, Note) :
               d.username = last'.username ]_vars

\* the add/update/delete actions outside the tab lifecycle
ShortcutMutations == {"addShortcut", "deleteShortcut"}
QuietMutations ==
    {"addHistory", "deleteHistory", "addBookmark", "updateBookmark",
     "deleteBookmark", "addNote", "updateNote", "deleteNote"}
StoresChanged ==
    <<Tab, Shortcut, History, Bookmark, Note>>' # <<Tab, Shortcut, History, Bookmark, Note>>

C10_NoUserMeansLogoutOnly ==
    [][ Unauthenticated(last')
        => /\ Len(out'[last'.conn]) = 1
           /\ IsStatus(out'[last'.conn][1])
           /\ out'[last'.conn][1].status = "logout"
           /\ \A c \in Conns \ {last'.conn} : out'[c] = <<>>
           /\ ~StoresChanged ]_vars

\* the step served a message that reached the callback's credential test
IsMessage(req) == req.op \in Actions \cup {UnknownAction}
Stores == <<Tab, Shortcut, History, Bookmark, Note>>

\* C11 -- a message whose outer sessionToken or username is missing or empty
\* is answered at once with the error envelope of the credential test, which
\* no handler sends; no collection, User record or id counter changes, and
\* nothing is delivered to any other connection.
C11_MissingCredentialsIsError ==
    [][ ( /\ IsMessage(last')
          /\ (last'.sessionToken = <<>> \/ last'.username = "") )
        => /\ out' = Send(last'.conn,
                          StatusMsg("error", "Missing sessionToken or username"))
           /\ UNCHANGED <<Stores, User, nextId>> ]_vars

\* a createTab without a username was answered with the error envelope
C11_Witness ==
    /\ last.op = "createTab"
    /\ last.sessionToken # <<>>
    /\ last.username = ""
    /\ out[last.conn] = <<StatusMsg("error", "Missing sessionToken or username")>>

\* C12 -- protocol errors: the step that serves an unparseable message, or a
\* message whose action is not one of the seventeen, answers the sender with
\* one error envelope, delivers nothing to any other connection, changes no
\* resource record and no User record, and leaves the connection open.
C12_ProtocolErrorIsError ==
    [][ last'.op \in {"malformed", UnknownAction}
        => /\ Len(out'[last'.conn]) = 1
           /\ IsStatus(out'[last'.conn][1])
           /\ out'[last'.conn][1].status = "error"
           /\ \A c \in Conns \ {last'.conn} : out'[c] = <<>>
           /\ UNCHANGED <<Stores, User>>
           /\ conns'[last'.conn].state = "open"
           /\ conns'[last'.conn].username = conns[last'.conn].username ]_vars

\* an unknown action with alice's valid credentials was answered "Unknown
\* action" while her other connection was bound and open
C12_Witness ==
    /\ last.op = UnknownAction
    /\ Matches(last)
    /\ out[last.conn] = <<StatusMsg("error", "Unknown action")>>
    /\ BoundOpen("c2", "alice")

\* the session tokens the collection users stores for username: {} when
\* there is no such user
StoredTokenIn(users, username) ==
    {users[i].sessionToken : i \in {j \in 1..Len(users) : users[j].username = username}}
StoredToken(username) == StoredTokenIn(User, username)

\* C13 -- session takeover: when a debounce check fires on an open connection
\* and the user exists with a stored token that differs from the presented
\* one, the stored token is null afterwards, this connection receives a
\* {status: "logout"} first, and every other open connection bound to that
\* user receives exactly one {action: "logout"}.
C13_MismatchClearsAndEvicts ==
    [][ ( /\ last'.op = "debounce"
          /\ conns[last'.conn].state = "open"
          /\ StoredToken(last'.username) # {}
          /\ last'.sessionToken \notin StoredToken(last'.username) )
        => /\ StoredTokenIn(User', last'.username) = {<<>>}
           /\ Len(out'[last'.conn]) >= 1
           /\ out'[last'.conn][1] = StatusMsg("logout", "Session mismatch detected")
           /\ \A c \in Conns \ {last'.conn} :
                 BoundOpen(c, last'.username)
                 => /\ Len(out'[c]) = 1
                    /\ IsAction(out'[c][1], "logout") ]_vars

\* alice's connection c2 presented a token that a new login had replaced,
\* while her connection c1 was bound and open: the stored token was cleared
\* and c1 was told to log out
C13_Witness ==
    /\ last.op = "debounce"
    /\ last.conn = "c2"
    /\ last.sessionToken \in issued
    /\ StoredToken("alice") = {<<>>}
    /\ BoundOpen("c1", "alice")
    /\ out["c1"] = <<[action |-> "logout", message |-> "Session mismatch"]>>
    /\ out["c2"][1] = StatusMsg("logout", "Session mismatch detected")

\* C14 -- as claimed: when a debounce check fires on an open connection and no
\* user has the claimed username, the connection receives a {status:
\* "logout"} and has no bound username afterwards, whatever it was bound to.
C14_UnknownUserUnbinds ==
    [][ ( /\ last'.op = "debounce"
          /\ conns[last'.conn].state = "open"
          /\ StoredToken(last'.username) = {} )
        => /\ Len(out'[last'.conn]) = 1
           /\ IsStatus(out'[last'.conn][1])
           /\ out'[last'.conn][1].status = "logout"
           /\ conns'[last'.conn].username = <<>> ]_vars

\* C15 -- when a debounce check fires and the user exists with a non-null
\* stored token equal to the presented one, the connection is bound to that
\* username and, being open, receives {status: "valid"}; in every other case
\* the check leaves the connection's bound username as it was and delivers no
\* {status: "valid"}; and no check ever changes a stored token to anything
\* but null.
C15_BindsOnlyWhenValid ==
    [][ last'.op = "debounce"
        => /\ IF StoredToken(last'.username) = {last'.sessionToken}
                 /\ last'.sessionToken # <<>>
              THEN /\ conns'[last'.conn].username = <<last'.username>>
                   /\ conns[last'.conn].state = "open"
                        => out'[last'.conn] = <<StatusMsg("valid", "Session verified")>>
              ELSE /\ conns'[last'.conn].username = conns[last'.conn].username
                   /\ \A i \in 1..Len(out'[last'.conn]) :
                          ~(IsStatus(out'[last'.conn][i])
                            /\ out'[last'.conn][i].status = "valid")
           /\ \A i \in 1..Len(User) :
                 User'[i].sessionToken # User[i].sessionToken
                 => User'[i].sessionToken = <<>> ]_vars

\* the first check of connection c1 bound it to alice and answered "valid"
C15_Witness ==
    /\ last.op = "debounce"
    /\ last.conn = "c1"
    /\ conns["c1"].username = <<"alice">>
    /\ out["c1"] = <<StatusMsg("valid", "Session verified")>>
    /\ conns["c2"].username = <<>>

\* the timer a message with these credentials sets on arrival
TimerOf(req) ==
    [username |-> req.username, sessionToken |-> req.sessionToken, setAt |-> now]
HasCredentials(req) == req.sessionToken # <<>> /\ req.username # ""

\* C16 -- as claimed: every inbound message, whatever its content, leaves the
\* connection with exactly one pending timer, the one it started.
C16_EveryMessageRestartsTimer ==
    [][ (IsMessage(last') \/ last'.op = "malformed")
        => conns'[last'.conn].timers = {TimerOf(last')} ]_vars

\* C16 -- amended: a message that parses and carries a non-empty sessionToken
\* and username cancels the connection's pending timer and starts a new one,
\* which is then the only pending timer of the connection; a message that
\* does not parse or lacks a credential leaves the pending timer as it is
\* and starts none; and a timer never fires before the fixed delay of 1000 ms
\* has passed since it was started.
C16_CredentialedMessageRestartsTimer ==
    [][ /\ (IsMessage(last') /\ HasCredentials(last'))
           => /\ conns'[last'.conn].timers = {TimerOf(last')}
              /\ conns'[last'.conn].debounceTimer = <<TimerOf(last')>>
        /\ ((IsMessage(last') /\ ~HasCredentials(last')) \/ last'.op = "malformed")
           => /\ conns'[last'.conn].timers = conns[last'.conn].timers
              /\ conns'[last'.conn].debounceTimer = conns[last'.conn].debounceTimer
        /\ last'.op = "debounce"
           => \A t \in conns[last'.conn].timers \ conns'[last'.conn].timers :
                 Millis(now) - Millis(t.setAt) >= DebounceDelay ]_vars

\* connection c1 is still unbound, so the timer of its first message never
\* fired, and its only pending timer is the one a later message started
C16_Witness ==
    /\ IsMessage(last)
    /\ last.conn = "c1"
    /\ conns["c1"].username = <<>>
    /\ FirstTimer("c1") \notin conns["c1"].timers
    /\ conns["c1"].timers = {TimerOf(last)}

\* the re-authentication checks of connection c that are outstanding:
\* scheduled timers, and callbacks that await the store
Outstanding(c) == Cardinality(conns[c].timers) + Cardinality(checks[c])

\* C17 -- as claimed: each connection has at most one scheduled debounce
\* timer, and never two validator checks outstanding (scheduled or awaiting
\* the store) at once.
C17_AtMostOneOutstandingCheck ==
    \A c \in Conns :
        /\ Cardinality(conns[c].timers) <= 1
        /\ Outstanding(c) <= 1

\* C18 -- as claimed: once a connection is closed, no debounce check fires
\* for it, no User record is modified on its behalf, and nothing is delivered
\* to it.
C18_CloseCancelsCheck ==
    [][ \A c \in Conns :
            conns[c].state = "closed" =>
                /\ ~(last'.op = "debounce" /\ last'.conn = c)
                /\ (last'.conn = c => User' = User)
                /\ out'[c] = <<>> ]_vars

\* the connections a broadcast to username reaches
Reaches(c, username) == BoundOpen(c, username) /\ ~conns[c].sendThrows

\* C19 -- broadcast delivery: a createTab that saves its tab broadcasts
\* tabCreated to its user; exactly the open connections bound to that user
\* receive it, once each; a connection whose send throws receives nothing,
\* the others still receive it, and the sender gets no error envelope.
C19_BroadcastDelivery ==
    [][ (last'.op = "createTab" /\ Tab' # Tab) =>
            /\ \A c \in Conns :
                 /\ Reaches(c, last'.username) =>
                        /\ Len(out'[c]) = 1
                        /\ IsAction(out'[c][1], "tabCreated")
                 /\ ~Reaches(c, last'.username) => out'[c] = <<>>
            /\ ~HasError(out'[last'.conn]) ]_vars

\* a tab was created while the socket of c1 throws: c2 received the broadcast
C19_Witness ==
    /\ last.op = "createTab" /\ last.conn = "c2"
    /\ BoundOpen("c1", "alice") /\ conns["c1"].sendThrows
    /\ out["c1"] = <<>>
    /\ Len(out["c2"]) = 1 /\ IsAction(out["c2"][1], "tabCreated")
    /\ out["c3"] = <<>>

\* s is t with some elements left out
IsSubseq(s, t) ==
    \E f \in [1..Len(s) -> 1..Len(t)] :
        /\ \A i, j \in 1..Len(s) : i < j => f[i] < f[j]
        /\ \A i \in 1..Len(s) : s[i] = t[f[i]]

\* the broadcast payloads connection c has received or has on its socket
Payloads(c) == SelectSeq(received[c] \o wire[c], IsBroadcast)

RequiredOf(op) == IF op = "addNote" THEN {"content"} ELSE {"title", "url"}
\* req is an authenticated add message whose document fails validation
FailsValidation(req) ==
    /\ req.op \in CreateActions
    /\ Authenticated(req)
    /\ (req.data = <<>> \/ ~(RequiredOf(req.op) \subseteq DOMAIN req.data[1]))
\* a store operation of the handler of req rejected
StoreRejected(req) == "failure" \in DOMAIN req

\* C21 -- a failure inside a handler (a store operation rejects, or the
\* document fails schema validation) is answered with exactly one error
\* envelope on the requesting connection; no collection, User record or id
\* counter changes, nothing is delivered to any other connection, and the
\* connection stays open.
C21_HandlerFailureIsCaught ==
    [][ (StoreRejected(last') \/ FailsValidation(last')) =>
            /\ Len(out'[last'.conn]) = 1
            /\ HasError(out'[last'.conn])
            /\ \A c \in Conns \ {last'.conn} : out'[c] = <<>>
            /\ Stores' = Stores /\ User' = User /\ nextId' = nextId
            /\ conns'[last'.conn].state = "open" ]_vars

\* a createTab whose store operation rejected, while c2 listens for alice
C21_Witness ==
    /\ StoreRejected(last) /\ last.op = "createTab" /\ last.conn = "c1"
    /\ Authenticated(last)
    /\ BoundOpen("c2", "alice")
    /\ out["c1"] = <<StatusMsg("error", "Failed to create tab")>>

\* C22 -- as claimed: a store failure at any point of message processing,
\* the lookup and the save of the debounce check included, is answered with
\* an error envelope on the connection it happened for, and leaves every
\* other connection as it was.
C22_StoreFailureIsSurfaced ==
    [][ StoreRejected(last') =>
            /\ HasError(out'[last'.conn])
            /\ \A c \in Conns \ {last'.conn} : conns'[c] = conns[c] ]_vars

\* the work of req went on after the transport of its connection had closed
AfterClose(req) == "raised" \in DOMAIN req

\* C23 -- as claimed: when the transport closes while a handler or a debounce
\* check is in flight, the work completes and no exception escapes from any
\* of its sends.
C23_UndeliverableIsNotRaised ==
    [][ AfterClose(last') => ~last'.raised ]_vars

\* C24 -- as claimed: once /verify has issued a new token for a user, no
\* token issued for that user before is the stored one, so that every handler
\* rejects it.
C24_VerifyRevokesEarlierTokens ==
    [][ last'.op = "verify" =>
            \A tok \in issued :
                tok[1] = last'.username =>
                    tok \notin StoredTokenIn(User', last'.username) ]_vars

\* req names, by data.id, a record of its action's collection that its user owns
OwnsTarget(req) ==
    \E d \in StoreOf(req.op, Tab, Shortcut, Bookmark, Note) :
        Targets(req, d["_id"]) /\ d.username = req.username
\* req is an authenticated update/delete with an id (and, for groupTab, a
\* newGroup), so that it gets to the store
HasTarget(req) ==
    /\ req.op \in UpdateDeleteActions
    /\ Authenticated(req)
    /\ req.data # <<>> /\ "id" \in DOMAIN req.data[1]
    /\ req.op = "groupTab" => "newGroup" \in DOMAIN req.data[1]

\* C25 -- as claimed: an authenticated closeTab, groupTab, or update/delete of
\* a shortcut, bookmark or note whose id names no record, or a record of
\* another user, is answered with one error envelope, changes no record and
\* delivers nothing to anybody else.
C25_MissingOrForeignTargetIsError ==
    [][ (HasTarget(last') /\ ~OwnsTarget(last')) =>
            /\ out'[last'.conn] # <<>>
            /\ \A i \in 1..Len(out'[last'.conn]) :
                   /\ IsStatus(out'[last'.conn][i])
                   /\ out'[last'.conn][i].status = "error"
            /\ \A c \in Conns \ {last'.conn} : out'[c] = <<>>
            /\ Stores' = Stores ]_vars

\* req is a credentialed message that lacks a field its action needs
LacksField(req) ==
    /\ req.op \in Actions
    /\ HasCredentials(req)
    /\ \/ /\ req.op \in CreateActions
          /\ (req.data = <<>> \/ ~(RequiredOf(req.op) \subseteq DOMAIN req.data[1]))
       \/ /\ req.op \in UpdateDeleteActions
          /\ (req.data = <<>> \/ "id" \notin DOMAIN req.data[1])
       \/ /\ req.op = "groupTab"
          /\ req.data # <<>> /\ "newGroup" \notin DOMAIN req.data[1]

\* C26 -- a message that lacks a field its action needs (the id, newGroup,
\* title, url or content, or data itself) is answered with exactly one status
\* envelope on the requesting connection: an error when the credentials match,
\* an error or the logout of the session test when they do not; no collection
\* changes and nothing is delivered to any other connection.
C26_MissingFieldIsError ==
    [][ LacksField(last') =>
            /\ Len(out'[last'.conn]) = 1
            /\ IsStatus(out'[last'.conn][1])
            /\ out'[last'.conn][1].status \in
                   (IF Matches(last') THEN {"error"} ELSE {"error", "logout"})
            /\ \A c \in Conns \ {last'.conn} : out'[c] = <<>>
            /\ Stores' = Stores /\ nextId' = nextId ]_vars

\* an authenticated addBookmark without a url was answered with an error
\* while a bookmark could have been stored
C26_Witness ==
    /\ last.op = "addBookmark" /\ Authenticated(last)
    /\ last.data = <<[title |-> "Docs"]>>
    /\ LacksField(last)
    /\ nextId <= MaxItems
    /\ HasError(out[last.conn])

ReadActions == {"getTabs", "getShortcuts", "getHistory", "getBookmarks", "getNotes"}
\* the field of the reply of a read action that carries the records
ResultField(op) ==
    CASE op = "getTabs" -> "tabs"
      [] op = "getShortcuts" -> "shortcuts"
      [] op = "getHistory" -> "history"
      [] op = "getBookmarks" -> "bookmarks"
      [] op = "getNotes" -> "notes"

\* C27 -- a read action (getTabs, getShortcuts, getHistory, getBookmarks,
\* getNotes) delivers nothing to any connection but the requesting one and
\* changes no collection, User record or id counter; with matching
\* credentials its single reply carries only records whose username is the
\* authenticated one.
C27_ReadsAreLocal ==
    [][ (last'.op \in ReadActions /\ HasCredentials(last')) =>
            /\ \A c \in Conns \ {last'.conn} : out'[c] = <<>>
            /\ Stores' = Stores /\ User' = User /\ nextId' = nextId
            /\ Authenticated(last') =>
                   /\ Len(out'[last'.conn]) = 1
                   /\ ResultField(last'.op) \in DOMAIN out'[last'.conn][1]
                   /\ \A d \in out'[last'.conn][1][ResultField(last'.op)] :
                          d.username = last'.username ]_vars

\* alice listed her bookmarks while the store held a bookmark of bob
C27_Witness ==
    /\ last.op = "getBookmarks" /\ Authenticated(last)
    /\ \E d \in Bookmark : d.username # last.username
    /\ Len(out[last.conn]) = 1
    /\ "bookmarks" \in DOMAIN out[last.conn][1]

\* C28 -- as claimed: no two User records have the same username.
C28_UsernamesUnique ==
    \A i, j \in 1..Len(User) : User[i].username = User[j].username => i = j

\* C29 -- as claimed, for its second part: a user whose registration
\* completed in the step just before a run of the sweep, at the same reading
\* of the clock, is not deleted by that run.
C29_SweepSparesNewUsers ==
    [][ (last.op = "registered" /\ last'.op = "sweep") =>
            \E i \in 1..Len(User') : User'[i].username = last.username ]_vars

\* the status envelopes of a reply
HasLogout(msgs) == \E i \in 1..Len(msgs) : IsStatus(msgs[i]) /\ msgs[i].status = "logout"
\* the messages of connection c that arrived up to a, with less than the
\* debounce delay between each and the next, a being the last of them
BurstOf(c, a) ==
    {b \in arrivals[c] :
        /\ b <= a
        /\ \A x \in arrivals[c] :
              (b <= x /\ x < a) =>
                  \E y \in arrivals[c] :
                      x < y /\ Millis(y) < Millis(x) + DebounceDelay}
\* a is the last message of a burst of c, and c has since been quiet for the
\* debounce delay, the timer that was due having run
QuietSince(c, a) ==
    /\ a \in arrivals[c]
    /\ \A y \in arrivals[c] : y <= a \/ Millis(y) >= Millis(a) + DebounceDelay
    /\ Millis(now) >= Millis(a) + DebounceDelay
    /\ \A t \in conns[c].timers : Millis(now) < Millis(t.setAt) + DebounceDelay
LookupsFor(c, a) == {i \in 1..Len(lookups[c]) : lookups[c][i] \in BurstOf(c, a)}
OneLookupPerBurst ==
    \A c \in Conns : \A a \in 0..MaxTicks :
        QuietSince(c, a) => Cardinality(LookupsFor(c, a)) = 1

\* C30 -- a message with credentials is answered with a logout exactly when
\* no User record holds its sessionToken and username, and then changes no
\* collection; when one does, a createTab stores a tab of that user: whether
\* the connection is bound and whether its debounce timer has fired play no
\* part.  And once a burst of such messages has been followed by a quiet
\* period of the debounce delay, the validator has looked the user up exactly
\* once for it.
C30_HandlersAuthorizeAlone ==
    /\ []OneLookupPerBurst
    /\ [][ (last'.op \in Actions /\ HasCredentials(last')) =>
              /\ HasLogout(out'[last'.conn]) <=> ~Matches(last')
              /\ ~Matches(last') => (Stores' = Stores /\ nextId' = nextId)
              /\ (Matches(last') /\ last'.op = "createTab" /\ last'.data \in TabData) =>
                     \E tab \in Tab' \ Tab : tab.username = last'.username ]_vars

\* the first message named an unknown user and was followed by a quiet
\* period: one lookup, and the connection left unbound; the createTab that
\* now arrived with alice's credentials stored her tab, its timer pending
C30_Witness ==
    /\ last.op = "createTab" /\ Authenticated(last)
    /\ conns[last.conn].username = <<>>
    /\ conns[last.conn].timers # {}
    /\ \E tab \in Tab : tab.username = last.username
    /\ \E a \in arrivals[last.conn] :
          /\ QuietSince(last.conn, a)
          /\ a < now
          /\ Cardinality(LookupsFor(last.conn, a)) = 1

\* the steps that may end a session: a login, a logout, a deletion
SessionEnders == {"verify", "logout", "delete-session", "delete-user"}

\* C31 -- as claimed: the non-null token stored for a user stays the stored
\* token of that user across every step that is not a login, a logout or a
\* deletion of the session or the user; in particular across a debounce
\* check that presented another token for that username.
C31_TokenOutlivesForeignChecks ==
    [][ last'.op \notin SessionEnders =>
            \A i \in 1..Len(User) :
                User[i].sessionToken # <<>> =>
                    \E j \in 1..Len(User') :
                        /\ User'[j].username = User[i].username
                        /\ User'[j].sessionToken = User[i].sessionToken ]_vars

\* C32 -- as claimed: when the save of a debounce callback completes and the
\* user's stored token is by then a non-null token other than the one the
\* callback read (a login has stored it since), that token is still the
\* stored one after the save.
C32_NoLostUpdate ==
    [][ \A c \in Conns : \A s \in checks[c] :
            ( /\ AwaitsSave(s)
              /\ s \notin checks'[c]
              /\ StoredToken(s.user.username) # {<<>>}
              /\ StoredToken(s.user.username) # {s.user.sessionToken} )
            => StoredTokenIn(User', s.user.username) = StoredToken(s.user.username)
      ]_vars

\* C33 -- the binding of a connection changes only in a debounce check on
\* that connection, to the username of the check, whose presented token is
\* non-null and is the token stored for that username; and a step delivers
\* something to a connection other than the acting one only if that
\* connection is bound to the username of the step.
C33_BoundOnlyByOwnCheck ==
    [][ /\ \A c \in Conns :
              conns'[c].username # conns[c].username =>
                  /\ last'.op = "debounce" /\ last'.conn = c
                  /\ conns'[c].username = <<last'.username>>
                  /\ last'.sessionToken # <<>>
                  /\ StoredToken(last'.username) = {last'.sessionToken}
        /\ \A c \in Conns \ {last'.conn} :
              out'[c] # <<>> => conns[c].username = <<last'.username>>
      ]_vars

\* c1 was bound by its own check; c2, still unbound, created a tab with
\* alice's credentials: tabCreated went to c1 and to no unbound connection
C33_Witness ==
    /\ last.op = "createTab" /\ last.conn = "c2" /\ Authenticated(last)
    /\ conns["c1"].username = <<"alice">>
    /\ conns["c2"].username = <<>>
    /\ out["c1"] # <<>> /\ out["c2"] = <<>> /\ out["c3"] = <<>>

\* the payload each tab action broadcasts
TabPayload ==
    [createTab |-> "tabCreated", closeTab |-> "tabClosed", groupTab |-> "tabGrouped"]

\* C34 -- as claimed: after a createTab, closeTab or groupTab that went
\* through, the acting connection has received the payload of the action.
C34_ActorReceivesPayload ==
    \A op \in DOMAIN TabPayload :
        Succeeded(op) =>
            \E i \in 1..Len(out[last.conn]) : IsAction(out[last.conn][i], TabPayload[op])

\* C35 -- as claimed: if connection c1 receives messages with valid
\* credentials again and again, it is eventually bound to its username (the
\* step that binds it sends the status valid).
C35_EventuallyBound ==
    ([]<>(last.conn = "c1" /\ Authenticated(last)))
        => <>(conns["c1"].username = <<"alice">>)

\* C36 -- a message with credentials leaves its own timer as the only one
\* of its connection, no other step gives the connection another timer, and
\* the check that fires is that of the last such message: it validates that
\* message's username and sessionToken, and where the user exists with
\* another stored token it leaves the stored token null, whatever the
\* earlier messages of the burst carried.
C36_LastMessageIsValidated ==
    [][ /\ (last'.op \in Actions /\ HasCredentials(last')) =>
              /\ conns'[last'.conn].timers = {TimerOf(last')}
              /\ conns'[last'.conn].debounceTimer = <<TimerOf(last')>>
        /\ \A c \in Conns :
              ~(last'.op \in Actions /\ HasCredentials(last') /\ last'.conn = c) =>
                  /\ conns'[c].timers \subseteq conns[c].timers
                  /\ conns'[c].debounceTimer \in {conns[c].debounceTimer, <<>>}
        /\ last'.op = "debounce" =>
              /\ conns[last'.conn].debounceTimer # <<>>
              /\ last'.username = conns[last'.conn].debounceTimer[1].username
              /\ last'.sessionToken = conns[last'.conn].debounceTimer[1].sessionToken
              /\ (\E tok \in StoredToken(last'.username) : tok # last'.sessionToken)
                    => StoredTokenIn(User', last'.username) = {<<>>}
      ]_vars

\* a burst of two: createTab with alice's token stored her tab, the message
\* after it carried a forged token, and the one check of the burst cleared
\* her stored token
C36_Witness ==
    /\ last.op = "debounce" /\ last.conn = "c1"
    /\ last.username = "alice" /\ last.sessionToken = <<"forged", 0>>
    /\ StoredToken("alice") = {<<>>}
    /\ \E tab \in Tab : tab.username = "alice"
    /\ arrivals["c1"] = {0, 1}
    /\ lookups["c1"] = <<1>>

\* the account a request's session token authenticates
Caller(req) ==
    {User[i].username : i \in {j \in 1..Len(User) : User[j].sessionToken = req.sessionToken}}
Deletions == {"delete-session", "delete-user"}

\* C37 -- as claimed: a /delete-session or /delete-user request leaves the
\* tabs, the stored token and the User record of every user other than the
\* one its session token authenticates as they were.
C37_DeletionsTouchCallerOnly ==
    [][ last'.op \in Deletions =>
            \A u \in Users \ Caller(last') :
                /\ {d \in Tab' : d.username = u} = {d \in Tab : d.username = u}
                /\ StoredTokenIn(User', u) = StoredToken(u) ]_vars

\* C38 -- as claimed: after a /delete-user answered 200 for a username, no
\* User record and no tab, shortcut, history entry, bookmark or note with
\* that username remains.
C38_DeleteUserLeavesNothing ==
    [][ last'.op = "delete-user" =>
            /\ StoredTokenIn(User', last'.username) = {}
            /\ \A d \in AllDocs(Tab', Shortcut', History', Bookmark', Note') :
                  d.username # last'.username ]_vars

\* C39 -- a deleteHistory with matching credentials removes exactly the
\* history entries whose username is the authenticated one, leaves the
\* other entries, the four other collections and the User records as they
\* were, and delivers one historyDeleted to the acting connection and
\* nothing to any other.
C39_DeleteHistoryFrame ==
    [][ (last'.op = "deleteHistory" /\ Authenticated(last')) =>
            /\ History' = {d \in History : d.username # last'.username}
            /\ Tab' = Tab /\ Shortcut' = Shortcut /\ Bookmark' = Bookmark
            /\ Note' = Note /\ User' = User
            /\ out'[last'.conn] = <<[action |-> "historyDeleted"]>>
            /\ \A c \in Conns \ {last'.conn} : out'[c] = <<>> ]_vars

\* a history entry created earlier is gone, the other user's entry and a
\* bookmark of the acting user are where they were
C39_Witness ==
    /\ last.op = "deleteHistory" /\ Authenticated(last)
    /\ \E d \in History : d.username # last.username
    /\ Cardinality(AllDocs(Tab, Shortcut, History, Bookmark, Note)) < nextId - 1
    /\ out[last.conn] = <<[action |-> "historyDeleted"]>>

====
